---- MODULE Spec2Model ----
(***************************************************************************)
(* A model of typed.py: the conformance checker (is_instance), the         *)
(* generic binding tracker (_ObjHints), the call wrapper built by          *)
(* checked / type_checked (_build_wrapper.wrapper) and the record facility *)
(* (DataStruct.attr / attributes / from_dict / to_dict with the traversal  *)
(* engine AttributeTypeHandler and its three strategies).                  *)
(***************************************************************************)
EXTENDS Integers, Sequences, FiniteSets, TLC

(***************************************************************************)
(* Bounds of the model.                                                    *)
(***************************************************************************)
\* largest handle the tracker hands out in a run (_count only ever grows)
MaxCount == 4

(***************************************************************************)
(* Python values.  Every value is a record with a kind field k.            *)
(***************************************************************************)
NoneV == [k |-> "none"]
IntV(n) == [k |-> "int", v |-> n]
StrV(s) == [k |-> "str", v |-> s]
ListV(s) == [k |-> "list", v |-> s]
TupleV(s) == [k |-> "tuple", v |-> s]
\* a dict is the sequence of its (key, value) items in insertion order
DictV(items) == [k |-> "dict", v |-> items]
\* an instance of a DataStruct subclass: its class and its __dict__
ObjV(c, d) == [k |-> "obj", cls |-> c, d |-> d]
BoolV(b) == [k |-> "bool", v |-> b]
\* an instance of a plain class c, made by c()
InstV(c) == [k |-> "inst", cls |-> c]

(***************************************************************************)
(* Type hints (descriptors).  Every hint is a record with a tag field t.   *)
(***************************************************************************)
\* attribute_type=None of DataStruct.attr, and "no hint" results
NoType == [t |-> "none"]
Cls(c) == [t |-> "class", c |-> c]
\* TypeVar(n, *cons, covariant=co, contravariant=contra)
TypeVarOf(n, cons, co, contra) ==
    [t |-> "TypeVar", n |-> n, cons |-> cons, co |-> co, contra |-> contra]
\* TypeVar(n, bound=bound, covariant=co, contravariant=contra)
BoundTypeVar(n, bound, co, contra) ==
    [t |-> "TypeVar", n |-> n, cons |-> <<>>, co |-> co, contra |-> contra, bound |-> bound]
\* a subscripted generic alias: get_origin is o, get_args is a
Alias(o, a) == [t |-> "alias", o |-> o, a |-> a]
\* the Ellipsis object inside Tuple[X, ...]
EllipsisT == [t |-> "ellipsis"]
\* the () argument of Tuple[()]
EmptyTupleArg == [t |-> "emptytuple"]

UnionT(a) == Alias("Union", a)
OptionalT(d) == Alias("Union", <<d, Cls("NoneType")>>)
ListT(d) == Alias("list", <<d>>)
DictT(kt, vt) == Alias("dict", <<kt, vt>>)
TupleT(a) == Alias("tuple", a)

\* the module level T = TypeVar("T") and a second, unrelated TypeVar
TV_T == TypeVarOf("T", <<>>, FALSE, FALSE)
TV_K == TypeVarOf("K", <<>>, FALSE, FALSE)
\* N = TypeVar("N", int, bool)
TV_N == TypeVarOf("N", <<"int", "bool">>, FALSE, FALSE)

\* a generic instance of class G(Generic[T]); id is the object identity,
\* eqv the value __eq__ compares, orig the __orig_class__ (NoType if unset)
GenV(i, e, orig) == [k |-> "gen", cls |-> "G", id |-> i, eqv |-> e, orig |-> orig]

\* an instance of another user-defined generic class c, made by c()
GenOf(c, i) == [k |-> "gen", cls |-> c, id |-> i, eqv |-> 0, orig |-> NoType]

(***************************************************************************)
(* Classes: the method resolution order of every class of the model.       *)
(***************************************************************************)
RecordClasses == {"DataStruct", "A", "B", "V", "W", "P", "Q", "R"}

RecordMro(c) ==
    CASE c = "B" -> <<"B", "A", "DataStruct", "object">>
      [] c = "DataStruct" -> <<"DataStruct", "object">>
      [] OTHER -> <<c, "DataStruct", "object">>

Mro(c) ==
    CASE c \in RecordClasses -> RecordMro(c)
      [] c = "G" -> <<"G", "Generic", "object">>
      [] c = "H" -> <<"H", "Generic", "object">>
      [] c = "GS" -> <<"GS", "G", "Generic", "object">>
      [] c = "G2" -> <<"G2", "Generic", "object">>
      [] c = "Generic" -> <<"Generic", "object">>
      [] c = "bool" -> <<"bool", "int", "object">>
      [] c = "Pet" -> <<"Pet", "Animal", "object">>
      [] c = "Cat" -> <<"Cat", "Pet", "Animal", "object">>
      [] c = "object" -> <<"object">>
      [] OTHER -> <<c, "object">>

Range(s) == {s[i] : i \in DOMAIN s}

\* obj.__class__
ClassOf(v) ==
    CASE v.k = "none" -> "NoneType"
      [] v.k \in {"obj", "gen", "inst"} -> v.cls
      [] OTHER -> v.k

\* an isinstance that None passes for every class
isinstance_or_none(v, c) == v.k = "none" \/ c \in Range(Mro(ClassOf(v)))

\* the builtin isinstance(obj, cls) for a class cls
isinstance(v, c) == c \in Range(Mro(ClassOf(v)))

\* the builtin issubclass(c, parent)
issubclass(c, parent) == parent \in Range(Mro(c))

(***************************************************************************)
(* The conformance checker.  A check yields "True", "False" or the name of *)
(* the exception it raises.                                                *)
(***************************************************************************)
\* a tuple of types, as in is_instance(x, (A, B, ...))
TypesTuple(a) == [t |-> "types", a |-> a]
AnyT == [t |-> "Any"]
BareOptionalT == [t |-> "Optional"]

BoolStr(b) == IF b THEN "True" ELSE "False"

\* an is_type that takes every type variable for covariant
is_type_covariant(child_type, parent_type, covariant, contravariant) ==
    \E i \in DOMAIN parent_type : parent_type[i] \in Range(Mro(child_type))

is_type(child_type, parent_type, covariant, contravariant) ==
    IF covariant
    THEN \E i \in DOMAIN parent_type : parent_type[i] \in Range(Mro(child_type))
    ELSE IF contravariant
         THEN \E i \in DOMAIN parent_type : child_type \in Range(Mro(parent_type[i]))
         ELSE \E i \in DOMAIN parent_type : child_type = parent_type[i]

\* line 616: the bound, when there is one, is the only constraint
Constraints(type_var) ==
    IF "bound" \in DOMAIN type_var THEN <<type_var.bound>> ELSE type_var.cons

is_type_var(child_type, type_var) ==
    IF Constraints(type_var) # <<>>
    THEN is_type(child_type, Constraints(type_var), type_var.co, type_var.contra)
    ELSE TRUE

\* cls.__parameters__ of a class: G(Generic[T]), H(Generic[T]), GS(G[T]) and
\* G2(Generic[T, K])
ClassParameters(c) ==
    CASE c \in {"G", "H", "GS"} -> <<TV_T>>
      [] c = "G2" -> <<TV_T, TV_K>>
      [] OTHER -> <<>>

\* repr(obj_type)[7:] of a subscripted alias, reduced to the prefix tested
AliasName(o) ==
    CASE o = "list" -> "List"
      [] o = "set" -> "Set"
      [] o = "frozenset" -> "FrozenSet"
      [] o = "Union" -> "Union"
      [] o = "dict" -> "Dict"
      [] o = "tuple" -> "Tuple"
      [] o = "Callable" -> "Callable"
      [] OTHER -> "other"

\* repr(obj_type)[7:]: typing prints a Union of a type and NoneType as
\* Optional[...] from Python 3.9 on; such an alias carries the name it prints
TypeName(obj_type) ==
    IF "name" \in DOMAIN obj_type THEN obj_type.name ELSE AliasName(obj_type.o)

\* the Python versions the module loads on (typing.get_origin is new in 3.8),
\* as far as typing differs between them: 3.8, 3.9 and 3.10, 3.11 and later
PythonVersions == {"3.8", "3.9", "3.11"}

\* the alias typing builds for Union[a]
BuildUnion(py, a) ==
    IF py # "3.8" /\ Len(a) = 2 /\ Cls("NoneType") \in Range(a)
    THEN [t |-> "alias", o |-> "Union", a |-> a, name |-> "Optional"]
    ELSE Alias("Union", a)

RECURSIVE Build(_, _)
\* the object typing builds on Python py for the type expression type:
\* Tuple[()] has the args ((),) up to 3.10 and no args from 3.11 on
Build(py, type) ==
    IF type.t = "types" THEN TypesTuple([i \in DOMAIN type.a |-> Build(py, type.a[i])])
    ELSE IF type.t # "alias" THEN type
    ELSE IF type.o = "Union"
    THEN BuildUnion(py, [i \in DOMAIN type.a |-> Build(py, type.a[i])])
    ELSE IF type.o = "tuple" /\ type.a = <<EmptyTupleArg>>
    THEN Alias("tuple", IF py = "3.11" THEN <<>> ELSE <<EmptyTupleArg>>)
    ELSE Alias(type.o, [i \in DOMAIN type.a |-> Build(py, type.a[i])])

\* a callable: a function, a bound method or an object with __call__ (kind);
\* args, varargs and varkw are those of inspect.getfullargspec (a bound
\* method and a callable object list their receiver first), ann is the dict
\* typing.get_type_hints returns, given by its items
FnV(kind, args, varargs, varkw, ann) ==
    [k |-> "fn", kind |-> kind, args |-> args, varargs |-> varargs, varkw |-> varkw,
     ann |-> ann]

\* the list typing.get_args puts the parameter types of Callable[[p1, ...], r] in
ParamList(p) == [t |-> "list", a |-> p]

\* Callable[[p1, ..., pn], r] and Callable[..., r], by their get_args
CallableT(p, r) == Alias("Callable", <<ParamList(p), r>>)
CallableAnyT(r) == Alias("Callable", <<EllipsisT, r>>)

\* key in annotations
Annotated(ann, key) == \E i \in DOMAIN ann : ann[i][1] = key

\* annotations[key]
Annotation(ann, key) == ann[CHOOSE i \in DOMAIN ann : ann[i][1] = key][2]

\* lines 466-472: the arity, then each entry of input_args against the
\* annotation of the parameter at its index
CheckExplicit(obj, input_args) ==
    LET start == IF obj.kind = "function" THEN 0 ELSE 1
    IN /\ Len(obj.args) - start = Len(input_args)
       /\ \A i \in DOMAIN input_args :
              /\ Annotated(obj.ann, obj.args[start + i])
              /\ Annotation(obj.ann, obj.args[start + i]) = input_args[i]

\* lines 458-478 of the Callable branch, for a callable obj
CallableMatches(obj, args) ==
    LET input_args == SubSeq(args, 1, Len(args) - 1)
        return_type == args[Len(args)]
        check_input == IF input_args[1] = EllipsisT THEN obj.varargs # ""
                       ELSE CheckExplicit(obj, input_args)
        check_return == IF Annotated(obj.ann, "return")
                        THEN Annotation(obj.ann, "return") = return_type
                        ELSE TRUE
    IN BoolStr(check_input /\ check_return)

RECURSIVE is_instance(_, _)
RECURSIVE AnyInstance(_, _)
RECURSIVE AllItems(_, _, _, _)
RECURSIVE AllInstances(_, _, _)

\* any(is_instance(obj, t) for t in types): stops at the first True
AnyInstance(obj, types) ==
    IF types = <<>> THEN "False"
    ELSE LET r == is_instance(obj, Head(types))
         IN IF r = "False" THEN AnyInstance(obj, Tail(types)) ELSE r

\* a check that looks at the first element only
FirstInstance(elems, types, acc) ==
    IF elems = <<>> THEN acc
    ELSE is_instance(Head(elems), Head(types))

\* all([is_instance(e, t) for ...]): the list is built in full first, so an
\* exception of a later element wins over an earlier False
AllInstances(elems, types, acc) ==
    IF elems = <<>> THEN acc
    ELSE LET r == is_instance(Head(elems), Head(types))
         IN IF r \notin {"True", "False"} THEN r
            ELSE AllInstances(Tail(elems), Tail(types),
                              IF r = "False" THEN "False" ELSE acc)

\* is_instance(k, args[0]) and is_instance(v, args[1]): the value is looked
\* at only when the key conforms
ItemAnd(rk, rv) == IF rk = "True" THEN rv ELSE rk

\* all([... for k, v in obj.items()]), the list being built in full first
AllItems(items, k_type, v_type, acc) ==
    IF items = <<>> THEN acc
    ELSE LET r == ItemAnd(is_instance(Head(items)[1], k_type),
                          is_instance(Head(items)[2], v_type))
         IN IF r \notin {"True", "False"} THEN r
            ELSE AllItems(Tail(items), k_type, v_type,
                          IF r = "False" THEN "False" ELSE acc)

Repeat(x, n) == [i \in 1..n |-> x]

is_instance(obj, obj_type) ==
    IF obj_type.t \in {"types", "emptytuple"}
    THEN AnyInstance(obj, IF obj_type.t = "types" THEN obj_type.a ELSE <<>>)
    ELSE IF obj_type.t = "class" THEN BoolStr(isinstance(obj, obj_type.c))
    ELSE IF obj_type.t \in {"Optional", "Any"} THEN "True"
    ELSE IF obj_type.t = "TypeVar" THEN BoolStr(is_type_var(ClassOf(obj), obj_type))
    ELSE IF obj_type.t # "alias" THEN "TypeError"
    ELSE LET origin == obj_type.o
             args == obj_type.a
             name == TypeName(obj_type)
         IN IF args = <<>> THEN BoolStr(isinstance(obj, origin))
            ELSE IF is_type(ClassOf(obj), <<"Generic">>, TRUE, FALSE)
            THEN IF origin = "Union" THEN "AttributeError"
                 ELSE BoolStr(
                        /\ is_type(origin, <<"Generic">>, TRUE, FALSE)
                        /\ Len(args) = Len(ClassParameters(ClassOf(obj)))
                        /\ \A i \in DOMAIN args : args[i] = ClassParameters(ClassOf(obj))[i])
            ELSE IF name \in {"List", "Set", "FrozenSet"}
            THEN IF ~isinstance(obj, origin) THEN "False"
                 ELSE AllInstances(obj.v, Repeat(args[1], Len(obj.v)), "True")
            ELSE IF name = "Union" THEN is_instance(obj, TypesTuple(args))
            ELSE IF name = "Dict"
            THEN IF ~isinstance(obj, origin) THEN "False"
                 ELSE AllItems(obj.v, args[1], args[2], "True")
            ELSE IF name = "Tuple"
            THEN IF Len(args) = 2 /\ args[2] = EllipsisT
                 THEN IF ~isinstance(obj, origin) THEN "False"
                      ELSE AllInstances(obj.v, Repeat(args[1], Len(obj.v)), "True")
                 ELSE IF ~isinstance(obj, origin) \/ Len(args) # Len(obj.v) THEN "False"
                      ELSE AllInstances(obj.v, args, "True")
            ELSE IF name = "Callable"
            THEN IF obj.k # "fn" THEN "False" ELSE CallableMatches(obj, args)
            ELSE "NotImplementedError"

(***************************************************************************)
(* The generic binding tracker _ObjHints.  Each method body runs under     *)
(* self._lock, so each is one atomic step of the calling thread.           *)
(***************************************************************************)
Threads == {"t1", "t2"}

\* the comparison "o == obj" in place of "o is obj"
IsEqualObject(o, obj) == o.eqv = obj.eqv

\* "o is obj": object identity
IsSameObject(o, obj) == o = obj

\* a get that does not look at the thread of an entry
IsAnyThread(t, thread_id) == TRUE

\* "t == thread_id"
IsSameThread(t, thread_id) == t = thread_id

\* _ObjHints.add: the new _count, the new _data and the returned handle
add(cnt, table, thread_id, obj, hint) ==
    [count |-> cnt + 1,
     data |-> [i \in DOMAIN table \cup {cnt + 1} |->
                  IF i = cnt + 1 THEN [t |-> thread_id, o |-> obj, h |-> hint]
                  ELSE table[i]],
     id |-> cnt + 1]

\* _ObjHints.remove: del self._data[identifier]
remove(table, identifier) == [i \in DOMAIN table \ {identifier} |-> table[i]]

\* sorted(self._data, reverse=True)
RECURSIVE SortedReverse(_)
SortedReverse(S) ==
    IF S = {} THEN <<>>
    ELSE LET m == CHOOSE x \in S : \A y \in S : y <= x
         IN <<m>> \o SortedReverse(S \ {m})

RECURSIVE ScanHints(_, _, _, _)
ScanHints(table, keys, thread_id, obj) ==
    IF keys = <<>> THEN NoType
    ELSE LET e == table[Head(keys)]
         IN IF IsSameThread(e.t, thread_id) /\ IsSameObject(e.o, obj) THEN e.h
            ELSE ScanHints(table, Tail(keys), thread_id, obj)

\* _ObjHints.get; NoType stands for the None it returns when nothing matches
get(table, thread_id, obj) == ScanHints(table, SortedReverse(DOMAIN table), thread_id, obj)

(***************************************************************************)
(* The wrapped functions of the model: inspect.getfullargspec and          *)
(* typing.get_type_hints of each, the class whose __dict__ holds the       *)
(* wrapper (owner) and the checker the decorator passed (_is_instance).    *)
(***************************************************************************)
GT == Alias("G", <<TV_T>>)
GenericT == Alias("Generic", <<TV_T>>)
GInt == Alias("G", <<Cls("int")>>)

Sig(args, varargs, kwonly, varkw, ann, owner, builtin) ==
    [args |-> args, varargs |-> varargs, kwonly |-> kwonly, varkw |-> varkw,
     ann |-> ann, owner |-> owner, builtin |-> builtin]

Functions ==
    [use |-> Sig(<<"a", "b">>, "", <<>>, "", [a |-> GT, b |-> Cls("int")], "", FALSE),
     pair |-> Sig(<<"a", "b">>, "", <<>>, "", [a |-> GT, b |-> GenericT], "", FALSE),
     raw |-> Sig(<<"a">>, "", <<>>, "", [a |-> Cls("G")], "", FALSE),
     m |-> Sig(<<"self", "x">>, "", <<>>, "", [x |-> TV_T], "G", FALSE),
     h |-> Sig(<<"a", "b">>, "", <<>>, "", [a |-> Cls("int"), b |-> Cls("str")], "", FALSE),
     ht |-> Sig(<<"a", "b">>, "", <<>>, "", [a |-> Cls("int"), b |-> Cls("str")], "", TRUE),
     same |-> Sig(<<"a", "b">>, "", <<"c">>, "", [a |-> TV_N, b |-> TV_N, c |-> TV_N], "", FALSE),
     samet |-> Sig(<<"a", "b">>, "", <<>>, "", [a |-> TV_N, b |-> TV_N], "", TRUE),
     f |-> Sig(<<"a">>, "d", <<"e">>, "g",
               [a |-> ListT(Cls("int")), d |-> Cls("str"), e |-> Cls("int"), g |-> Cls("int")],
               "", FALSE)]

\* the builtin isinstance as _is_instance: subscripted generics and TypeVars
\* cannot be used with instance checks
builtin_isinstance(obj, obj_type) ==
    IF obj_type.t = "class" THEN BoolStr(isinstance(obj, obj_type.c)) ELSE "TypeError"

\* _has_function(obj, wrapper)
_has_function(obj, fn) == Functions[fn].owner = ClassOf(obj)

\* hasattr(obj_type, "__parameters__")
HasParameters(obj_type) ==
    \/ obj_type.t = "alias"
    \/ obj_type.t = "class" /\ ClassParameters(obj_type.c) # <<>>

\* alias.__parameters__: the type variables among the arguments
RECURSIVE AliasParameters(_)
AliasParameters(a) ==
    IF a = <<>> THEN <<>>
    ELSE LET rest == AliasParameters(Tail(a))
         IN IF Head(a).t = "TypeVar" /\ Head(a) \notin Range(rest)
            THEN <<Head(a)>> \o rest ELSE rest

\* _get_parameters(obj) for a subscripted alias
_get_parameters(obj) ==
    IF AliasParameters(obj.a) # <<>> THEN AliasParameters(obj.a)
    ELSE ClassParameters(obj.o)

\* line 555: {k: clazz.__args__[i] for i, k in enumerate(_get_parameters(clazz))}
\* a plain class has no __args__ (AttributeError); result: the dict or the exception
TypeVarsOfClazz(clazz) ==
    IF clazz.t # "alias" THEN [exc |-> "AttributeError", tv |-> <<>>]
    ELSE LET ps == _get_parameters(clazz)
         IN IF Len(ps) > Len(clazz.a) THEN [exc |-> "IndexError", tv |-> <<>>]
            ELSE [exc |-> "",
                  tv |-> [n \in {ps[i].n : i \in DOMAIN ps} |->
                            clazz.a[CHOOSE i \in DOMAIN ps : ps[i].n = n]]]

\* _get_type_of_type_var: the resolved obj_type and the updated type_vars
_get_type_of_type_var(arg, obj_type, type_vars) ==
    IF obj_type.t = "TypeVar"
    THEN IF obj_type.n \in DOMAIN type_vars
         THEN [obj_type |-> type_vars[obj_type.n], type_vars |-> type_vars]
         ELSE [obj_type |-> obj_type,
               type_vars |-> [n \in DOMAIN type_vars \cup {obj_type.n} |->
                                IF n = obj_type.n THEN Cls(ClassOf(arg)) ELSE type_vars[n]]]
    ELSE [obj_type |-> obj_type, type_vars |-> type_vars]

\* lines 559-564: the hint looked up for the positional argument at index
\* (0-based in the source, 1-based here); NoType when the lookup raises KeyError
PositionalHint(fn, index) ==
    LET spec == Functions[fn]
        name == IF index <= Len(spec.args) THEN spec.args[index] ELSE spec.varargs
    IN IF name \in DOMAIN spec.ann THEN spec.ann[name] ELSE NoType

\* lines 577-583: the hint looked up for the keyword argument name
KeywordHintName(spec, name) ==
    IF name \in Range(spec.kwonly) THEN name ELSE spec.varkw

KeywordHint(fn, name) ==
    LET spec == Functions[fn]
        key == KeywordHintName(spec, name)
    IN IF key \in DOMAIN spec.ann THEN spec.ann[key] ELSE NoType

(***************************************************************************)
(* State.  count, data: _hints._count and _hints._data.  stack[t]: the     *)
(* wrapper activations of thread t, innermost last; each holds the locals  *)
(* of _build_wrapper.wrapper (type_vars, saved_hints, the loop position)   *)
(* and, as history, the bindings it added (bound), the table at its entry  *)
(* (before), the class found for its receiver (clazz) and the binding the  *)
(* thread itself had made for that receiver (own).  fault: a remove hit a  *)
(* handle that is not in the table (KeyError).  imp: the from_dict call of *)
(* the record facility that is in progress (see below).                    *)
(***************************************************************************)
VARIABLES count, data, stack, fault, imp

varsTracker == <<count, data, stack, fault>>

Unset == [t |-> "unset"]

Call(fn, pos, kw) == [fn |-> fn, pos |-> pos, kw |-> kw]

g1 == GenV(1, 0, NoType)
g2 == GenV(2, 0, NoType)
g3 == GenV(3, 1, GInt)

\* the calls threads make at top level and from inside a wrapped function
TopCalls ==
    {Call("use", <<g1>>, <<<<"b", IntV(1)>>>>), Call("use", <<g1, StrV("s")>>, <<>>),
     Call("raw", <<g1>>, <<>>), Call("m", <<g1, IntV(1)>>, <<>>)}

\* the wrapped calls the body of each function makes
BodyCalls(fn) ==
    CASE fn = "use" -> {Call("m", <<g1, IntV(1)>>, <<>>), Call("m", <<g2, IntV(1)>>, <<>>),
                        Call("pair", <<g1, g1>>, <<>>)}
      [] fn \in {"pair", "raw"} -> {Call("m", <<g1, IntV(1)>>, <<>>)}
      [] OTHER -> {}

Top(t) == stack[t][Len(stack[t])]

SetTop(t, f) == [stack EXCEPT ![t] = [@ EXCEPT ![Len(@)] = f]]

CanBind(v) == v.k = "gen" /\ v.orig = NoType

\* how many bindings a call can still add
PotentialAdds(pos, kw) ==
    Cardinality({i \in DOMAIN pos : CanBind(pos[i])})
    + Cardinality({i \in DOMAIN kw : CanBind(kw[i][2])})

Reserve(f) ==
    IF f.pc \in {"args", "kwargs"}
    THEN PotentialAdds(f.pos, f.kw) - Len(f.saved) ELSE 0

RECURSIVE SumReserve(_)
SumReserve(frames) ==
    IF frames = <<>> THEN 0 ELSE Reserve(Head(frames)) + SumReserve(Tail(frames))

RECURSIVE TotalReserve(_)
TotalReserve(ts) ==
    IF ts = {} THEN 0
    ELSE LET t == CHOOSE x \in ts : TRUE
         IN SumReserve(stack[t]) + TotalReserve(ts \ {t})

\* the binding thread t itself made last for obj and has not removed:
\* innermost activation first, last added first
RECURSIVE LastBound(_, _)
LastBound(bound, obj) ==
    IF bound = <<>> THEN NoType
    ELSE LET e == bound[Len(bound)]
         IN IF e.o = obj THEN e.h ELSE LastBound(SubSeq(bound, 1, Len(bound) - 1), obj)

RECURSIVE OwnBinding(_, _)
OwnBinding(frames, obj) ==
    IF frames = <<>> THEN NoType
    ELSE LET r == LastBound(frames[Len(frames)].bound, obj)
         IN IF r # NoType THEN r
            ELSE OwnBinding(SubSeq(frames, 1, Len(frames) - 1), obj)

\* lines 544-545 on entry of wrapper(*args, **kwargs)
NewFrame(c, table) ==
    [fn |-> c.fn, pos |-> c.pos, kw |-> c.kw, pc |-> "start", idx |-> 1,
     type_vars |-> <<>>, saved |-> <<>>, bound |-> <<>>, exc |-> "",
     before |-> table, clazz |-> Unset, own |-> Unset]

\* an exception that leaves the wrapper without running the clean-up loop
FailWithoutCleanup(f, e) ==
    [f EXCEPT !.pc = "cleanup", !.exc = e, !.saved = <<>>, !.bound = <<>>]

\* an exception inside the try block: control passes to the finally block
Fail(f, e) == [f EXCEPT !.pc = "cleanup", !.exc = e]

\* where the loops of lines 557 and 576 continue; after the last argument
\* line 595 invokes the original function (pc "body")
Advance(f, pc, idx) ==
    IF pc = "args" /\ idx <= Len(f.pos) THEN [f EXCEPT !.pc = "args", !.idx = idx]
    ELSE IF pc = "args" THEN
        IF f.kw = <<>> THEN [f EXCEPT !.pc = "body", !.idx = 1]
        ELSE [f EXCEPT !.pc = "kwargs", !.idx = 1]
    ELSE IF idx <= Len(f.kw) THEN [f EXCEPT !.pc = "kwargs", !.idx = idx]
    ELSE [f EXCEPT !.pc = "body", !.idx = 1]

\* lines 566-574 and 585-593 for one argument: the activation, _count, _data
CheckArgument(f, t, arg, hint, pc, cnt, table) ==
    IF hint = NoType
    THEN [f |-> Advance(f, pc, f.idx + 1), count |-> cnt, data |-> table]
    ELSE LET r == _get_type_of_type_var(arg, hint, f.type_vars)
             obj_type == r.obj_type
             res == IF Functions[f.fn].builtin THEN builtin_isinstance(arg, obj_type)
                    ELSE is_instance(arg, obj_type)
             f1 == [f EXCEPT !.type_vars = r.type_vars]
         IN IF res = "False"
            THEN [f |-> Fail(f1, "TypeError"), count |-> cnt, data |-> table]
            ELSE IF res # "True"
            THEN [f |-> Fail(f1, res), count |-> cnt, data |-> table]
            ELSE IF is_type(ClassOf(arg), <<"Generic">>, TRUE, FALSE)
                    /\ arg.orig = NoType /\ HasParameters(obj_type)
            THEN LET a == add(cnt, table, t, arg, obj_type)
                 IN [f |-> Advance([f1 EXCEPT !.saved = Append(@, a.id),
                                              !.bound = Append(@, [o |-> arg, h |-> obj_type])],
                                   pc, f.idx + 1),
                     count |-> a.count, data |-> a.data]
            ELSE [f |-> Advance(f1, pc, f.idx + 1), count |-> cnt, data |-> table]

\* lines 544-555 for a new activation f of thread t whose outer activations
\* are frames: the type variables bound by the receiver
Enter(f, t, frames, table) ==
    LET isMethod == /\ Len(f.pos) > 0
                    /\ is_type(ClassOf(f.pos[1]), <<"Generic">>, TRUE, FALSE)
                    /\ _has_function(f.pos[1], f.fn)
        clazz == IF f.pos[1].orig # NoType THEN f.pos[1].orig
                 ELSE get(table, t, f.pos[1])
        own == IF f.pos[1].orig # NoType THEN Unset
               ELSE OwnBinding(frames, f.pos[1])
    IN IF ~isMethod THEN Advance(f, "args", 1)
       ELSE IF clazz = NoType
       THEN Advance([f EXCEPT !.clazz = clazz, !.own = own], "args", 1)
       ELSE LET tv == TypeVarsOfClazz(clazz)
                f1 == [f EXCEPT !.clazz = clazz, !.own = own, !.type_vars = tv.tv]
            IN IF tv.exc # "" THEN Fail(f1, tv.exc) ELSE Advance(f1, "args", 1)

\* a thread calls a wrapped function: wrapper runs up to its first loop
CallWrapped(t, c) ==
    /\ stack[t] # <<>> => Top(t).pc = "body"
    /\ count + TotalReserve(Threads) + PotentialAdds(c.pos, c.kw) <= MaxCount
    /\ stack' = [stack EXCEPT ![t] = Append(@, Enter(NewFrame(c, data), t, stack[t], data))]
    /\ UNCHANGED <<count, data, fault, imp>>

\* lines 557-574: one round of the loop over args
CheckPositional(t) ==
    /\ stack[t] # <<>>
    /\ Top(t).pc = "args"
    /\ LET f == Top(t)
           r == CheckArgument(f, t, f.pos[f.idx], PositionalHint(f.fn, f.idx), "args", count, data)
       IN /\ stack' = SetTop(t, r.f)
          /\ count' = r.count
          /\ data' = r.data
    /\ UNCHANGED <<fault, imp>>

\* lines 576-593: one round of the loop over kwargs
CheckKeyword(t) ==
    /\ stack[t] # <<>>
    /\ Top(t).pc = "kwargs"
    /\ LET f == Top(t)
           r == CheckArgument(f, t, f.kw[f.idx][2], KeywordHint(f.fn, f.kw[f.idx][1]),
                              "kwargs", count, data)
       IN /\ stack' = SetTop(t, r.f)
          /\ count' = r.count
          /\ data' = r.data
    /\ UNCHANGED <<fault, imp>>

\* line 595: the original function returns
Return(t) ==
    /\ stack[t] # <<>>
    /\ Top(t).pc = "body"
    /\ stack' = SetTop(t, [Top(t) EXCEPT !.pc = "cleanup"])
    /\ UNCHANGED <<count, data, fault, imp>>

\* line 595: the original function raises
Raise(t) ==
    /\ stack[t] # <<>>
    /\ Top(t).pc = "body"
    /\ stack' = SetTop(t, Fail(Top(t), "Exception"))
    /\ UNCHANGED <<count, data, fault, imp>>

\* lines 597-598: one round of the loop of the finally block
RemoveHint(t) ==
    /\ stack[t] # <<>>
    /\ Top(t).pc = "cleanup"
    /\ Top(t).saved # <<>>
    /\ LET f == Top(t)
           hint == Head(f.saved)
       IN /\ fault' = (fault \/ hint \notin DOMAIN data)
          /\ data' = remove(data, hint)
          /\ stack' = SetTop(t, [f EXCEPT !.saved = Tail(@), !.bound = Tail(@)])
    /\ UNCHANGED <<count, imp>>

\* the wrapper call ends, by return or by the pending exception
Exit(t) ==
    /\ stack[t] # <<>>
    /\ Top(t).pc = "cleanup"
    /\ Top(t).saved = <<>>
    /\ stack' = [stack EXCEPT ![t] = SubSeq(@, 1, Len(@) - 1)]
    /\ UNCHANGED <<count, data, fault, imp>>

InitTracker ==
    /\ count = 0
    /\ data = <<>>
    /\ stack = [t \in Threads |-> <<>>]
    /\ fault = FALSE

WrapperStep(t) ==
    \/ CheckPositional(t)
    \/ CheckKeyword(t)
    \/ Return(t)
    \/ Raise(t)
    \/ RemoveHint(t)
    \/ Exit(t)

\* no from_dict call is in progress
IdleImport == [pc |-> "idle"]

Init == InitTracker /\ imp = IdleImport

Next ==
    \/ \E t \in Threads : \E c \in TopCalls : stack[t] = <<>> /\ CallWrapped(t, c)
    \/ \E t \in Threads : stack[t] # <<>> /\ \E c \in BodyCalls(Top(t).fn) : CallWrapped(t, c)
    \/ \E t \in Threads : WrapperStep(t)

vars == <<count, data, stack, fault, imp>>

Spec == Init /\ [][Next]_vars

(***************************************************************************)
(* One thread calling functions with positional, keyword, *args and        *)
(* **kwargs arguments: the specification of the argument checks.           *)
(***************************************************************************)
ArgCalls ==
    {Call("h", <<IntV(1)>>, <<>>), Call("h", <<StrV("x")>>, <<>>),
     Call("h", <<IntV(1), StrV("s")>>, <<>>), Call("h", <<IntV(1), IntV(3)>>, <<>>),
     Call("h", <<>>, <<<<"a", IntV(1)>>>>), Call("h", <<>>, <<<<"a", StrV("x")>>>>),
     Call("h", <<IntV(1)>>, <<<<"b", StrV("s")>>>>), Call("h", <<IntV(1)>>, <<<<"b", IntV(3)>>>>),
     Call("ht", <<IntV(1)>>, <<>>), Call("ht", <<StrV("x")>>, <<>>),
     Call("ht", <<>>, <<<<"a", StrV("x")>>>>),
     Call("f", <<ListV(<<IntV(1)>>)>>, <<>>), Call("f", <<ListV(<<StrV("s")>>)>>, <<>>),
     Call("f", <<ListV(<<>>), StrV("a")>>, <<>>), Call("f", <<ListV(<<>>), IntV(1)>>, <<>>),
     Call("f", <<ListV(<<>>)>>, <<<<"e", IntV(2)>>>>), Call("f", <<ListV(<<>>)>>, <<<<"e", StrV("s")>>>>),
     Call("f", <<ListV(<<>>)>>, <<<<"z", IntV(2)>>>>), Call("f", <<ListV(<<>>)>>, <<<<"z", StrV("s")>>>>),
     Call("f", <<ListV(<<>>)>>, <<<<"e", IntV(2)>>, <<"z", StrV("s")>>>>),
     Call("m", <<g3, IntV(1)>>, <<>>), Call("m", <<g3, StrV("s")>>, <<>>),
     Call("use", <<g1, IntV(1)>>, <<>>),
     Call("same", <<IntV(1), BoolV(TRUE)>>, <<>>), Call("same", <<BoolV(TRUE), IntV(1)>>, <<>>),
     Call("same", <<IntV(1), IntV(3)>>, <<>>), Call("same", <<StrV("s"), StrV("s")>>, <<>>),
     Call("same", <<IntV(1), StrV("s")>>, <<>>),
     Call("same", <<BoolV(TRUE)>>, <<<<"c", IntV(1)>>>>), Call("same", <<IntV(1)>>, <<<<"c", BoolV(TRUE)>>>>),
     Call("same", <<BoolV(TRUE)>>, <<<<"b", IntV(1)>>>>), Call("same", <<>>, <<<<"a", StrV("s")>>>>),
     Call("samet", <<IntV(1), IntV(3)>>, <<>>)}

NextCall ==
    \/ \E c \in ArgCalls : stack["t1"] = <<>> /\ CallWrapped("t1", c)
    \/ WrapperStep("t1")

SpecCall == Init /\ [][NextCall]_vars

(***************************************************************************)
(* Properties of the tracker and the wrapper.                              *)
(***************************************************************************)
Objs == {g1, g2}

Finished(f) == f.pc = "cleanup" /\ f.saved = <<>>

\* the handles the live activations still have to remove
SavedHandles ==
    UNION {UNION {Range(stack[t][i].saved) : i \in DOMAIN stack[t]} : t \in Threads}

NoSharedHandle ==
    \A t \in Threads, u \in Threads :
        \A i \in DOMAIN stack[t], j \in DOMAIN stack[u] :
            /\ Cardinality(Range(stack[t][i].saved)) = Len(stack[t][i].saved)
            /\ (t # u \/ i # j) =>
                   Range(stack[t][i].saved) \cap Range(stack[u][j].saved) = {}

\* the entries of a table that belong to thread t
OwnEntries(table, t) ==
    [h \in {i \in DOMAIN table : table[i].t = t} |-> table[h]]

MatchingHandles(table, thread_id, obj) ==
    {i \in DOMAIN table : table[i].t = thread_id /\ table[i].o = obj}

LatestHint(table, thread_id, obj) ==
    LET M == MatchingHandles(table, thread_id, obj)
    IN IF M = {} THEN NoType
       ELSE table[CHOOSE i \in M : \A j \in M : j <= i].h

\* C1: the class a wrapper finds in the tracker for its receiver is the one
\* the calling thread itself bound last for that very object (none when the
\* thread bound none), whatever other threads have bound for the object.
C1_BindingIsolation ==
    \A t \in Threads : \A i \in DOMAIN stack[t] :
        stack[t][i].own # Unset => stack[t][i].clazz = stack[t][i].own

\* two threads are inside calls on the same receiver and each found its own,
\* different, binding
C1_Witness ==
    \E t \in Threads, u \in Threads :
        /\ t # u /\ stack[t] # <<>> /\ stack[u] # <<>>
        /\ Top(t).own # Unset /\ Top(u).own # Unset
        /\ Top(t).pos[1] = Top(u).pos[1]
        /\ Top(t).clazz # NoType /\ Top(u).clazz # NoType
        /\ Top(t).clazz # Top(u).clazz

\* C2 as claimed: every entry added by a wrapped call is removed exactly once
\* when the call exits, the table after a call equals the table at its entry
\* and the table is empty when no wrapped call is in progress.
C2_TableRestoredAtExit ==
    /\ ~fault
    /\ DOMAIN data = SavedHandles
    /\ NoSharedHandle
    /\ (\A t \in Threads : stack[t] = <<>>) => data = <<>>
    /\ \A t \in Threads :
           stack[t] # <<>> /\ Finished(Top(t)) => data = Top(t).before

\* C2 amended: every entry added by a wrapped call is removed exactly once
\* when the call exits, on every exit path; after a call the entries of the
\* calling thread equal those at its entry, and the table is empty when no
\* wrapped call is in progress in any thread.
C2_BindingLifetime ==
    /\ ~fault
    /\ DOMAIN data = SavedHandles
    /\ NoSharedHandle
    /\ (\A t \in Threads : stack[t] = <<>>) => data = <<>>
    /\ \A t \in Threads :
           stack[t] # <<>> /\ Finished(Top(t)) =>
               OwnEntries(data, t) = OwnEntries(Top(t).before, t)

\* a call whose second argument failed validation after the first argument
\* had added a binding has finished its clean-up
C2_Witness ==
    \E t \in Threads :
        /\ stack[t] # <<>> /\ Finished(Top(t))
        /\ Top(t).fn = "use" /\ Top(t).exc = "TypeError"
        /\ count > 0
        /\ OwnEntries(data, t) = OwnEntries(Top(t).before, t)

\* C3: get(obj) of thread t is the hint of the live entry with the largest
\* handle among the entries of thread t for the identical object, None when
\* there is none; it is the binding of the innermost call of t that bound obj.
C3_GetReturnsLatestOwnBinding ==
    \A t \in Threads : \A obj \in Objs :
        /\ get(data, t, obj) = LatestHint(data, t, obj)
        /\ get(data, t, obj) = OwnBinding(stack[t], obj)

\* a nested call has bound the object the outer call had bound: the inner
\* binding is the one found, and an equal but distinct object has none
C3_Witness ==
    \E t \in Threads :
        /\ Len(stack[t]) >= 2
        /\ LastBound(stack[t][1].bound, g1) = GT
        /\ LastBound(stack[t][2].bound, g1) = GenericT
        /\ get(data, t, g1) = GenericT
        /\ get(data, t, g2) = NoType

\* the parameter Python binds the positional argument at index to
ParameterOfPositional(fn, index) ==
    IF index <= Len(Functions[fn].args) THEN Functions[fn].args[index]
    ELSE Functions[fn].varargs

\* the parameter Python binds the keyword argument name to
ParameterOfKeyword(fn, name) ==
    IF name \in Range(Functions[fn].args) \cup Range(Functions[fn].kwonly) THEN name
    ELSE Functions[fn].varkw

Conforms(fn, value, parameter) ==
    parameter \in DOMAIN Functions[fn].ann =>
        (IF Functions[fn].builtin THEN builtin_isinstance(value, Functions[fn].ann[parameter])
         ELSE is_instance(value, Functions[fn].ann[parameter])) = "True"

\* C4: when the original function is invoked, every argument whose parameter
\* carries a type hint conforms to that hint, however it was passed.
C4_HintedArgumentsValidated ==
    \A t \in Threads : \A i \in DOMAIN stack[t] :
        LET f == stack[t][i]
        IN f.pc = "body" =>
            /\ \A j \in DOMAIN f.pos : Conforms(f.fn, f.pos[j], ParameterOfPositional(f.fn, j))
            /\ \A j \in DOMAIN f.kw : Conforms(f.fn, f.kw[j][2], ParameterOfKeyword(f.fn, f.kw[j][1]))

(***************************************************************************)
(* The record facility.  An operation yields Ok(value) or Throw(exception).*)
(* An exception is a record: its class (type), what it reports (kind) and  *)
(* the record class and field its message names.  The path suffixes the    *)
(* traversal appends to the field name ("[0]", "[...]", ".<k>") are left   *)
(* out of the message.                                                     *)
(***************************************************************************)
Ok(v) == [ok |-> TRUE, v |-> v]
Throw(e) == [ok |-> FALSE, exc |-> e]
Exc(type, kind, name, attribute) ==
    [type |-> type, kind |-> kind, name |-> name, attribute |-> attribute]

\* key in d, for a dict given by its items
HasKey(items, key) == \E i \in DOMAIN items : items[i][1] = key

\* d[key]
Lookup(items, key) == items[CHOOSE i \in DOMAIN items : items[i][1] = key][2]

\* d[key] = value: a new key goes last, a known key keeps its position
Put(items, key, value) ==
    IF HasKey(items, key)
    THEN [i \in DOMAIN items |-> IF items[i][1] = key THEN <<key, value>> ELSE items[i]]
    ELSE Append(items, <<key, value>>)

RECURSIVE MakeDict(_, _)
\* dict(pairs)
MakeDict(pairs, acc) ==
    IF pairs = <<>> THEN acc
    ELSE MakeDict(Tail(pairs), Put(acc, Head(pairs)[1], Head(pairs)[2]))

is_nullable(attribute_type) ==
    \/ attribute_type = Cls("NoneType")
    \/ /\ attribute_type.t = "alias"
       /\ attribute_type.o = "Union"
       /\ Cls("NoneType") \in Range(attribute_type.a)

\* typing.Optional[d]: a Union absorbs the added NoneType
OptionalOf(d) ==
    IF d.t = "alias" /\ d.o = "Union" THEN UnionT(d.a \o <<Cls("NoneType")>>)
    ELSE OptionalT(d)

\* the spec tuple DataStruct.attr attaches to the setter; from_converter is
\* the name of the converter, "" for None
attr(attribute, attribute_type, has_default, default, from_converter) ==
    [attribute |-> attribute,
     attribute_type |->
        IF attribute_type # NoType /\ has_default /\ default = NoneV
                /\ ~is_nullable(attribute_type)
        THEN OptionalOf(attribute_type) ELSE attribute_type,
     from_converter |-> from_converter,
     has_value |-> has_default,
     value |-> IF has_default THEN default ELSE NoneV]

\* a class attribute holding the property DataStruct.attr returned
Property(prop, spec) == [prop |-> prop, spec |-> spec]

(***************************************************************************)
(* The record classes of the model.  V is a leaf record; B extends A and   *)
(* declares x again; W nests V; P has converters; Q compares a default of  *)
(* None with no default; R has container fields.                           *)
(***************************************************************************)
ClassDict(c) ==
    CASE c = "V" -> << Property("v", attr("v1", Cls("int"), FALSE, NoneV, "")) >>
      [] c = "A" -> << Property("x", attr("x", NoType, TRUE, IntV(1), "")),
                       Property("y", attr("y", Cls("int"), FALSE, NoneV, "")) >>
      [] c = "B" -> << Property("x", attr("x", NoType, TRUE, IntV(2), "")),
                       Property("z", attr("zz", Cls("str"), TRUE, NoneV, "")) >>
      [] c = "W" -> << Property("child", attr("kid", Cls("V"), FALSE, NoneV, "")),
                       Property("oc", attr("oc", OptionalT(Cls("V")), FALSE, NoneV, "")),
                       Property("un", attr("un", UnionT(<<Cls("V"), Cls("int")>>), TRUE, IntV(0), "")) >>
      [] c = "P" -> << Property("c1", attr("c1", Cls("int"), FALSE, NoneV, "to_int")),
                       Property("c2", attr("c2", Cls("str"), TRUE, StrV("d"), "const")),
                       Property("c3", attr("c3", OptionalT(Cls("str")), FALSE, NoneV, "const")),
                       Property("c4", attr("c4", NoType, TRUE, NoneV, "const")) >>
      [] c = "Q" -> << Property("n1", attr("n1", Cls("int"), TRUE, NoneV, "")),
                       Property("n2", attr("n2", Cls("int"), FALSE, NoneV, "")),
                       Property("n3", attr("n3", Cls("V"), TRUE, NoneV, "")),
                       Property("n4", attr("n4", Cls("V"), FALSE, NoneV, "")) >>
      [] c = "R" -> << Property("l", attr("l", ListT(Cls("V")), FALSE, NoneV, "")),
                       Property("t", attr("t", TupleT(<<Cls("int"), Cls("str")>>), FALSE, NoneV, "")),
                       Property("m", attr("m", DictT(Cls("str"), Cls("int")), TRUE, DictV(<<>>), "")) >>
      [] OTHER -> <<>>

RECURSIVE Concat(_)
Concat(seqs) == IF seqs = <<>> THEN <<>> ELSE Head(seqs) \o Concat(Tail(seqs))

\* the properties found walking cls.__mro__, each class in declaration order
Properties(cls) == Concat([i \in DOMAIN Mro(cls) |-> ClassDict(Mro(cls)[i])])

\* cls.attributes(): one spec per property found, nearest class first
attributes(cls) == [i \in DOMAIN Properties(cls) |-> Properties(cls)[i].spec]

\* the from_converter callables of the model
Converters == {"to_int", "const"}

\* from_converter(value): to_int is int, const is lambda _: "new"
CallConverter(from_converter, value) ==
    CASE from_converter = "const" -> Ok(StrV("new"))
      [] from_converter = "to_int" ->
            CASE value.k = "int" -> Ok(value)
              [] value.k = "str" ->
                    IF value.v = "7" THEN Ok(IntV(7))
                    ELSE Throw(Exc("ValueError", "int", "", ""))
              [] OTHER -> Throw(Exc("TypeError", "int", "", ""))

(***************************************************************************)
(* The traversal engine (AttributeTypeHandler) and its three strategies.   *)
(* A handler is the strategy (mode), the record name of its messages and   *)
(* the two exception classes it raises and, inside a Union, catches.       *)
(***************************************************************************)
AttributeValidator(name) ==
    [mode |-> "validate", name |-> name, handle_exc |-> "TypeError", size_exc |-> "TypeError"]
ConverterFrom(name) ==
    [mode |-> "from", name |-> name, handle_exc |-> "ValueError", size_exc |-> "ValueError"]
ConverterTo(name) ==
    [mode |-> "to", name |-> name, handle_exc |-> "RuntimeError", size_exc |-> "RuntimeError"]

\* the TypeError of the builtin isinstance(value, x) for an x that is no class
IsinstanceTypeError == Exc("TypeError", "isinstance", "", "")

_fail_handle(h, attribute) == Throw(Exc(h.handle_exc, "type", h.name, attribute))

_validate_size(h, attribute, expected_size, actual_size) ==
    IF expected_size # actual_size
    THEN Throw(Exc(h.size_exc, "size", h.name, attribute))
    ELSE Ok(NoneV)

\* the validator drains the generator and returns None, a converter builds
\* the container anew
_handle_inner(h, parent_type, inner_values) ==
    IF h.mode = "validate" THEN NoneV
    ELSE CASE parent_type = "tuple" -> TupleV(inner_values)
           [] parent_type = "list" -> ListV(inner_values)
           [] parent_type = "dict" -> DictV(MakeDict(inner_values, <<>>))

RECURSIVE handle(_, _, _, _)
RECURSIVE HandleUnionArgs(_, _, _, _)
RECURSIVE HandleEach(_, _, _, _)
RECURSIVE HandleItems(_, _, _, _, _)
RECURSIVE from_dict(_, _, _)
RECURSIVE ImportAll(_, _, _, _)
RECURSIVE to_dict(_)
RECURSIVE ExportAll(_, _, _, _)

\* the handled element r followed by the rest of the generator: the first
\* exception ends it
Prepend(r, rest) ==
    IF ~r.ok THEN r
    ELSE IF ~rest.ok THEN rest
    ELSE Ok(<<r.v>> \o rest.v)

\* the generator of handled elements
HandleEach(h, attribute, types, values) ==
    IF values = <<>> THEN Ok(<<>>)
    ELSE Prepend(handle(h, attribute, Head(types), Head(values)),
                 HandleEach(h, attribute, Tail(types), Tail(values)))

\* the handled pair (k, v) followed by the rest of the generator: the key
\* is handled first, then the value
PrependItem(k, v, rest) ==
    IF ~k.ok THEN k
    ELSE IF ~v.ok THEN v
    ELSE IF ~rest.ok THEN rest
    ELSE Ok(<<<<k.v, v.v>>>> \o rest.v)

\* the generator of handled (key, value) pairs
HandleItems(h, attribute, k_type, v_type, items) ==
    IF items = <<>> THEN Ok(<<>>)
    ELSE PrependItem(handle(h, attribute, k_type, Head(items)[1]),
                     handle(h, attribute, v_type, Head(items)[2]),
                     HandleItems(h, attribute, k_type, v_type, Tail(items)))

\* a loop that goes on after a success and returns the last one
TryLaterArgs(h, r, rest) ==
    IF rest.ok THEN rest
    ELSE IF r.ok THEN r
    ELSE IF r.exc.type \in {h.handle_exc, h.size_exc} THEN rest
    ELSE r

\* try/except of _handle_union: the outcome r of one arg is returned, or, if
\* it is an exception of the handler's own classes, the loop goes on (rest)
TryArg(h, r, rest) ==
    IF r.ok THEN r
    ELSE IF r.exc.type \in {h.handle_exc, h.size_exc} THEN rest
    ELSE r

\* the loop of _handle_union over the remaining args
HandleUnionArgs(h, attribute, args, value) ==
    IF args = <<>> THEN _fail_handle(h, attribute)
    ELSE TryArg(h, handle(h, attribute, Head(args), value),
                HandleUnionArgs(h, attribute, Tail(args), value))

\* a Union handled as its first member alone
_handle_first_member(h, attribute, attribute_type, value) ==
    handle(h, attribute, Head(attribute_type.a), value)

_handle_union(h, attribute, attribute_type, value) ==
    HandleUnionArgs(h, attribute, attribute_type.a, value)

\* value = self._handle_inner(parent_type, generator), after the size check
\* s: the exception of either, else the container _handle_inner returns
Inner(h, parent_type, s, r) ==
    IF ~s.ok THEN s
    ELSE IF ~r.ok THEN r
    ELSE Ok(_handle_inner(h, parent_type, r.v))

\* Tuple[X, ...] always has exactly two args
_handle_tuple(h, attribute, attribute_type, value) ==
    LET args == attribute_type.a
    IN IF ~isinstance(value, "tuple") THEN _fail_handle(h, attribute)
       ELSE IF args = <<>> THEN Ok(value)
       ELSE IF args[Len(args)] = EllipsisT
       THEN Inner(h, "tuple", Ok(NoneV),
                  HandleEach(h, attribute, Repeat(args[1], Len(value.v)), value.v))
       ELSE IF args = <<EmptyTupleArg>>
       THEN IF _validate_size(h, attribute, 0, Len(value.v)).ok THEN Ok(value)
            ELSE _validate_size(h, attribute, 0, Len(value.v))
       ELSE Inner(h, "tuple", _validate_size(h, attribute, Len(args), Len(value.v)),
                  HandleEach(h, attribute, args, value.v))

_handle_list(h, attribute, attribute_type, value) ==
    LET args == attribute_type.a
    IN IF ~isinstance(value, "list") THEN _fail_handle(h, attribute)
       ELSE IF args # <<>> /\ value.v # <<>>
       THEN Inner(h, "list", Ok(NoneV),
                  HandleEach(h, attribute, Repeat(args[1], Len(value.v)), value.v))
       ELSE Ok(value)

_handle_dict(h, attribute, attribute_type, value) ==
    LET args == attribute_type.a
    IN IF ~isinstance(value, "dict") THEN _fail_handle(h, attribute)
       ELSE IF args # <<>> /\ value.v # <<>>
       THEN Inner(h, "dict", Ok(NoneV),
                  HandleItems(h, attribute, args[1], args[2], value.v))
       ELSE Ok(value)

\* ConverterFrom imports a dict and passes anything else through;
\* ConverterTo calls value.to_dict(), which only a record instance has
_convert_data_struct(h, attribute_type, value) ==
    IF h.mode = "from"
    THEN IF isinstance(value, "dict") THEN from_dict(attribute_type.c, value, FALSE)
         ELSE Ok(value)
    ELSE IF value.k = "obj" THEN to_dict(value)
         ELSE Throw(Exc("AttributeError", "to_dict", "", ""))

_handle_extra(h, attribute, attribute_type, value) ==
    IF h.mode = "validate"
    THEN IF attribute_type.t # "class" THEN Throw(IsinstanceTypeError)
         ELSE IF ~isinstance(value, attribute_type.c) THEN _fail_handle(h, attribute)
         ELSE Ok(NoneV)
    ELSE IF attribute_type.t = "class" /\ issubclass(attribute_type.c, "DataStruct")
         THEN _convert_data_struct(h, attribute_type, value)
         ELSE IF attribute_type.t # "class" THEN Throw(IsinstanceTypeError)
         ELSE IF ~isinstance(value, attribute_type.c) THEN _fail_handle(h, attribute)
         ELSE Ok(value)

handle(h, attribute, attribute_type, value) ==
    LET origin == IF attribute_type.t = "alias" THEN attribute_type.o ELSE "None"
    IN CASE origin = "Union" -> _handle_union(h, attribute, attribute_type, value)
         [] origin = "tuple" -> _handle_tuple(h, attribute, attribute_type, value)
         [] origin = "list" -> _handle_list(h, attribute, attribute_type, value)
         [] origin = "dict" -> _handle_dict(h, attribute, attribute_type, value)
         [] OTHER -> _handle_extra(h, attribute, attribute_type, value)

validate_attribute(struct, attribute, attribute_type, value) ==
    handle(AttributeValidator(struct), attribute, attribute_type, value)

(***************************************************************************)
(* Instances.  The __dict__ of an instance is a function from the names    *)
(* stored to their values.                                                 *)
(***************************************************************************)
\* self.__dict__[key] = value
Store(d, key, value) == [k \in DOMAIN d \cup {key} |-> IF k = key THEN value ELSE d[k]]

\* the getter of a property: self.__dict__.get(attribute)
getter(d, attribute) == IF attribute \in DOMAIN d THEN d[attribute] ELSE NoneV

\* the setter of a property: a typed one validates before it stores
\* the assignment that follows the validation r
StoreIf(r, d, attribute, value) == IF r.ok THEN Ok(Store(d, attribute, value)) ELSE r

setter(name, spec, d, value) ==
    IF spec.attribute_type # NoType
    THEN StoreIf(validate_attribute(name, spec.attribute, spec.attribute_type, value),
                 d, spec.attribute, value)
    ELSE Ok(Store(d, spec.attribute, value))

\* obj.__setattr__(key, value): the property named key of the nearest class
\* that has one sets the value, else the value becomes an instance attribute
__setattr__(cls, d, key, value) ==
    LET ps == Properties(cls)
        found == {i \in DOMAIN ps : ps[i].prop = key}
    IN IF found # {}
       THEN setter(cls, ps[CHOOSE i \in found : \A j \in found : i <= j].spec, d, value)
       ELSE Ok(Store(d, key, value))

\* no value: the field was not reached, nothing was stored
NoValue == [k |-> "unset"]

\* what one pass of the loop of from_dict did: the field, whether data had
\* the key and its raw value, whether the converter was called, the value
\* given to the import conversion, the value handed to __setattr__ and
\* whether the pass ended without an exception
Event(spec, present, raw, converted, given, stored, ok) ==
    [spec |-> spec, present |-> present, raw |-> raw, converted |-> converted,
     given |-> given, stored |-> stored, ok |-> ok]

\* the converter is called unless the field is typed and nullable and the
\* raw value is None
UsesConverterUnlessNone(spec, value) == spec.from_converter # "" /\ value # NoneV

UsesConverter(spec, value) ==
    /\ spec.from_converter # ""
    /\ ~(spec.attribute_type # NoType /\ is_nullable(spec.attribute_type) /\ value = NoneV)

\* line 100: the outcome w of obj.__setattr__ ends the pass
AfterStore(e, w) == [r |-> w, ev |-> [e EXCEPT !.ok = w.ok]]

\* lines 98-100: the outcome v of the import conversion is stored
AfterImport(cls, spec, d, e, v) ==
    IF ~v.ok THEN [r |-> v, ev |-> e]
    ELSE AfterStore([e EXCEPT !.stored = v.v], __setattr__(cls, d, spec.attribute, v.v))

\* lines 93-99: a ValueError of the converter is raised again as the
\* conversion failure of the field, else its outcome c is import-converted
\* if the field is typed
AfterConverter(cls, spec, d, e, c) ==
    IF ~c.ok
    THEN [r |-> IF c.exc.type = "ValueError"
                THEN Throw(Exc("ValueError", "convert", cls, spec.attribute))
                ELSE c,
          ev |-> e]
    ELSE AfterImport(cls, spec, d, [e EXCEPT !.given = c.v],
                     IF spec.attribute_type # NoType
                     THEN handle(ConverterFrom(cls), spec.attribute, spec.attribute_type, c.v)
                     ELSE c)

\* the branch of the loop for a key that data has
PresentField(cls, spec, d, raw) ==
    AfterConverter(cls, spec, d,
                   Event(spec, TRUE, raw, UsesConverter(spec, raw), NoValue, NoValue, FALSE),
                   IF UsesConverter(spec, raw) THEN CallConverter(spec.from_converter, raw)
                   ELSE Ok(raw))

\* the branch of the loop for a key that data lacks
MissingField(cls, spec, d) ==
    IF spec.has_value
    THEN AfterStore(Event(spec, FALSE, NoValue, FALSE, NoValue, spec.value, FALSE),
                    __setattr__(cls, d, spec.attribute, spec.value))
    ELSE [r |-> Throw(Exc("ValueError", "missing", cls, spec.attribute)),
          ev |-> Event(spec, FALSE, NoValue, FALSE, NoValue, NoValue, FALSE)]

\* one pass of the loop of from_dict: the new __dict__ or the exception (r)
\* and what the pass did (ev)
ImportField(cls, spec, mapping, d) ==
    IF HasKey(mapping.v, StrV(spec.attribute))
    THEN PresentField(cls, spec, d, Lookup(mapping.v, StrV(spec.attribute)))
    ELSE MissingField(cls, spec, d)

\* the keys of data
Keys(mapping) == {mapping.v[i][1] : i \in DOMAIN mapping.v}

FirstUnexpectedAttribute(cls, mapping) ==
    LET difference == Keys(mapping) \ {StrV(s.attribute) : s \in Range(attributes(cls))}
    IN IF difference = {} THEN {}
       ELSE {mapping.v[CHOOSE i \in DOMAIN mapping.v :
                    /\ mapping.v[i][1] \in difference
                    /\ \A j \in DOMAIN mapping.v : mapping.v[j][1] \in difference => i <= j][1]}

\* set(data).difference({attribute for attribute, _, _ in cls.attributes()})
UnexpectedAttributes(cls, mapping) ==
    Keys(mapping) \ {StrV(s.attribute) : s \in Range(attributes(cls))}

\* the error of a strict import: the class and every unexpected key
UnexpectedError(cls, difference) ==
    [type |-> "ValueError", kind |-> "unexpected", name |-> cls, keys |-> difference]

\* after the pass s the loop goes on with the remaining specs, or ends
ImportRest(cls, specs, mapping, s) ==
    IF ~s.r.ok THEN s.r ELSE ImportAll(cls, specs, mapping, s.r.v)

\* the loop of from_dict over the remaining specs
ImportAll(cls, specs, mapping, d) ==
    IF specs = <<>> THEN Ok(ObjV(cls, d))
    ELSE ImportRest(cls, Tail(specs), mapping, ImportField(cls, Head(specs), mapping, d))

from_dict(cls, mapping, strict) ==
    IF strict /\ UnexpectedAttributes(cls, mapping) # {}
    THEN Throw(UnexpectedError(cls, UnexpectedAttributes(cls, mapping)))
    ELSE ImportAll(cls, attributes(cls), mapping, <<>>)

\* the exported value r of one field is put under its name and the
\* comprehension goes on with the remaining specs, or ends
ExportRest(cls, specs, d, acc, attribute, r) ==
    IF ~r.ok THEN r ELSE ExportAll(cls, specs, d, Put(acc, StrV(attribute), r.v))

\* the dict comprehension of to_dict over the remaining specs
ExportAll(cls, specs, d, acc) ==
    IF specs = <<>> THEN Ok(DictV(acc))
    ELSE ExportRest(cls, Tail(specs), d, acc, Head(specs).attribute,
                    handle(ConverterTo(cls), Head(specs).attribute,
                           Head(specs).attribute_type,
                           getter(d, Head(specs).attribute)))

to_dict(self) == ExportAll(self.cls, attributes(self.cls), self.d, <<>>)

(***************************************************************************)
(* A from_dict call, pass by pass, followed by to_dict of its result and   *)
(* from_dict of what to_dict produced.  imp holds the arguments (cls,      *)
(* data, strict), the position (pc, idx), the __dict__ of the local obj    *)
(* (d), the instance returned (result), the exception raised (exc), one    *)
(* event per pass of the loop (log), and the outcomes of to_dict (out) and *)
(* of the second from_dict (back).                                         *)
(***************************************************************************)
NoExc == [type |-> "none"]

NewImport(cls, mapping, strict) ==
    [pc |-> "call", cls |-> cls, data |-> mapping, strict |-> strict, idx |-> 0,
     d |-> <<>>, result |-> NoValue, exc |-> NoExc, log |-> <<>>,
     out |-> NoValue, back |-> NoValue]

\* the mappings handed to V.from_dict by the enclosing records
VGood == DictV(<< <<StrV("v1"), IntV(1)>> >>)
VBad == DictV(<< <<StrV("v1"), StrV("s")>> >>)
\* an instance of V built beforehand
VObj == ObjV("V", [v1 |-> IntV(1)])

\* the values tried for each key of a record class
KeyMenu(c) ==
    CASE c = "V" -> << <<"v1", {IntV(1), StrV("s")}>> >>
      [] c = "A" -> << <<"x", {IntV(7)}>>, <<"y", {IntV(3), StrV("s"), NoneV}>> >>
      [] c = "B" -> << <<"x", {IntV(7)}>>, <<"zz", {NoneV, StrV("s"), IntV(3)}>>,
                       <<"y", {IntV(3), StrV("s")}>> >>
      [] c = "W" -> << <<"kid", {VGood, VBad, VObj, NoneV, IntV(5)}>>,
                       <<"oc", {NoneV, VGood}>>,
                       <<"un", {IntV(4), VGood, StrV("s")}>> >>
      [] c = "P" -> << <<"c1", {StrV("7"), StrV("a"), NoneV, IntV(1)}>>,
                       <<"c2", {NoneV, StrV("s")}>>,
                       <<"c3", {NoneV, StrV("s")}>>,
                       <<"c4", {NoneV, IntV(1)}>> >>
      [] c = "Q" -> << <<"n1", {NoneV, IntV(1)}>>, <<"n2", {NoneV, IntV(1)}>>,
                       <<"n3", {NoneV, VGood}>>, <<"n4", {NoneV, VGood}>> >>
      [] c = "R" -> << <<"l", {ListV(<<>>), ListV(<<VGood>>), ListV(<<VGood, VBad>>), NoneV}>>,
                       <<"t", {TupleV(<<IntV(1), StrV("s")>>), TupleV(<<IntV(1)>>), ListV(<<>>)}>>,
                       <<"m", {DictV(<< <<StrV("k"), IntV(1)>> >>),
                               DictV(<< <<IntV(1), IntV(1)>> >>)}>> >>

\* keys no class declares
ExtraItems == { <<>>, << <<StrV("w1"), IntV(0)>> >>,
                << <<StrV("w1"), IntV(0)>>, <<StrV("w2"), NoneV>> >> }

RECURSIVE Mappings(_)
\* every choice of present keys and of their values
Mappings(menu) ==
    IF menu = <<>> THEN {<<>>}
    ELSE LET rest == Mappings(Tail(menu))
         IN rest \cup { << <<StrV(Head(menu)[1]), v>> >> \o r : v \in Head(menu)[2], r \in rest }

ImportedClasses == {"V", "A", "B", "W", "P", "Q", "R"}

\* the from_dict calls of the model
ImportsOf(c) ==
    { NewImport(c, DictV(m \o x), strict) :
        m \in Mappings(KeyMenu(c)), x \in ExtraItems, strict \in BOOLEAN }

Imports == UNION { ImportsOf(c) : c \in ImportedClasses }

\* lines 79-85: the strict check, then obj = cls()
FromDictBegin ==
    /\ imp.pc = "call"
    /\ imp' = IF imp.strict /\ UnexpectedAttributes(imp.cls, imp.data) # {}
              THEN [imp EXCEPT !.pc = "raised",
                               !.exc = UnexpectedError(imp.cls, UnexpectedAttributes(imp.cls, imp.data))]
              ELSE [imp EXCEPT !.pc = "loop", !.idx = 1]
    /\ UNCHANGED varsTracker

\* the call after the pass s: the next pass, or the exception raised
AfterPass(call, s) ==
    IF s.r.ok
    THEN [call EXCEPT !.idx = @ + 1, !.d = s.r.v, !.log = Append(@, s.ev)]
    ELSE [call EXCEPT !.pc = "raised", !.exc = s.r.exc, !.log = Append(@, s.ev)]

\* one pass of the loop
FromDictField ==
    /\ imp.pc = "loop"
    /\ imp.idx <= Len(attributes(imp.cls))
    /\ imp' = AfterPass(imp, ImportField(imp.cls, attributes(imp.cls)[imp.idx],
                                         imp.data, imp.d))
    /\ UNCHANGED varsTracker

\* return obj
FromDictReturn ==
    /\ imp.pc = "loop"
    /\ imp.idx > Len(attributes(imp.cls))
    /\ imp' = [imp EXCEPT !.pc = "done", !.result = ObjV(imp.cls, imp.d)]
    /\ UNCHANGED varsTracker

\* result.to_dict()
ToDict ==
    /\ imp.pc = "done"
    /\ imp' = [imp EXCEPT !.pc = "exported", !.out = to_dict(imp.result)]
    /\ UNCHANGED varsTracker

\* cls.from_dict(result.to_dict())
FromDictAgain ==
    /\ imp.pc = "exported"
    /\ imp.out.ok
    /\ imp' = [imp EXCEPT !.pc = "imported", !.back = from_dict(imp.cls, imp.out.v, FALSE)]
    /\ UNCHANGED varsTracker

InitRecord == InitTracker /\ imp \in Imports

NextRecord ==
    \/ FromDictBegin
    \/ FromDictField
    \/ FromDictReturn
    \/ ToDict
    \/ FromDictAgain

SpecRecord == InitRecord /\ [][NextRecord]_vars

(***************************************************************************)
(* Properties of the record facility.                                      *)
(***************************************************************************)
\* the field names a record class declares, own and inherited
DeclaredFields(cls) == {s.attribute : s \in Range(attributes(cls))}

\* the declaration a class has under a name: that of the nearest class
FieldOf(cls, attribute) ==
    LET specs == attributes(cls)
    IN specs[CHOOSE i \in DOMAIN specs :
                /\ specs[i].attribute = attribute
                /\ \A j \in DOMAIN specs : specs[j].attribute = attribute => i <= j]

\* the passes of the loop that handed a value for the field to __setattr__
Populations(attribute) ==
    {i \in DOMAIN imp.log :
        imp.log[i].spec.attribute = attribute /\ imp.log[i].stored # NoValue}

\* the keys of the input mapping that name no declared field
UnexpectedKeys == {k \in Keys(imp.data) : k.k # "str" \/ k.v \notin DeclaredFields(imp.cls)}

\* C5: a from_dict that succeeds has populated every declared field of the
\* class, own and inherited, exactly once, and a from_dict that fails
\* returns no instance.
C5_EveryFieldPopulatedOnce ==
    /\ imp.pc = "done" =>
          \A a \in DeclaredFields(imp.cls) : Cardinality(Populations(a)) = 1
    /\ imp.pc = "raised" => imp.result = NoValue

\* C6: a declared field absent from the input mapping holds its declared
\* default after the import, None included, the converter is not called for
\* it, and when it has no default the import fails with the missing-value
\* ValueError naming the class and the field.
C6_AbsentFieldTakesDefault ==
    /\ \A i \in DOMAIN imp.log :
          LET e == imp.log[i]
          IN ~e.present =>
                /\ ~e.converted
                /\ ~e.spec.has_value =>
                      /\ imp.pc = "raised"
                      /\ imp.exc = Exc("ValueError", "missing", imp.cls, e.spec.attribute)
    /\ imp.pc = "done" =>
          \A a \in DeclaredFields(imp.cls) :
              ~HasKey(imp.data.v, StrV(a)) =>
                  /\ FieldOf(imp.cls, a).has_value
                  /\ getter(imp.result.d, a) = FieldOf(imp.cls, a).value

\* C7: for a field with a converter whose key is present, the converter is
\* called on the raw value first and its output is what is import-converted
\* and stored; it is skipped exactly when the field is typed, its descriptor
\* is nullable and the raw value is None, and then None is stored.
C7_ConverterAppliedFirst ==
    \A i \in DOMAIN imp.log :
        LET e == imp.log[i]
            s == e.spec
            skipped == s.attribute_type # NoType /\ is_nullable(s.attribute_type)
                          /\ e.raw = NoneV
            c == CallConverter(s.from_converter, e.raw)
        IN e.present /\ s.from_converter # "" =>
              /\ e.converted <=> ~skipped
              /\ skipped => e.ok /\ e.given = NoneV /\ e.stored = NoneV
              /\ ~skipped /\ ~c.ok =>
                    e.given = NoValue /\ e.stored = NoValue /\ imp.pc = "raised"
              /\ ~skipped /\ c.ok =>
                    /\ e.given = c.v
                    /\ e.stored # NoValue =>
                          e.stored = IF s.attribute_type = NoType THEN c.v
                                     ELSE handle(ConverterFrom(imp.cls), s.attribute,
                                                 s.attribute_type, c.v).v
              /\ e.ok /\ i = Len(imp.log) /\ imp.pc = "loop" =>
                    getter(imp.d, s.attribute) = e.stored

\* a record whose converter turned "7" into 7, whose converters were called
\* on None for a non-nullable and for an untyped field, and whose converter
\* was skipped for None in a nullable field
C7_Witness ==
    /\ imp.pc = "done" /\ imp.cls = "P"
    /\ \A a \in {"c2", "c3", "c4"} :
          HasKey(imp.data.v, StrV(a)) /\ Lookup(imp.data.v, StrV(a)) = NoneV
    /\ HasKey(imp.data.v, StrV("c1")) /\ Lookup(imp.data.v, StrV("c1")) = StrV("7")
    /\ imp.result.d["c1"] = IntV(7)
    /\ imp.result.d["c2"] = StrV("new")
    /\ imp.result.d["c3"] = NoneV
    /\ imp.result.d["c4"] = StrV("new")

\* C8 as stated: a strict from_dict fails if and only if the input mapping
\* has a key that names no declared field; it then fails before any
\* converter ran or any field was populated, listing every such key.
C8_StrictFailsIffUnexpected ==
    imp.pc # "idle" /\ imp.strict =>
        /\ imp.pc \in {"raised", "done"} => (imp.pc = "raised" <=> UnexpectedKeys # {})
        /\ UnexpectedKeys # {} =>
              /\ imp.pc \in {"call", "raised"}
              /\ imp.log = <<>> /\ imp.d = <<>>
              /\ imp.pc = "raised" => imp.exc = UnexpectedError(imp.cls, UnexpectedKeys)

\* C8: a strict from_dict fails with the unexpected-attributes ValueError if
\* and only if the input mapping has a key that names no declared field; it
\* then fails before any converter ran or any field was populated, and the
\* error names the class and lists every such key.
C8_StrictUnexpectedError ==
    imp.pc # "idle" /\ imp.strict =>
        /\ imp.pc \in {"raised", "done"} =>
              ((imp.pc = "raised" /\ imp.exc.kind = "unexpected") <=> UnexpectedKeys # {})
        /\ UnexpectedKeys # {} =>
              /\ imp.pc \in {"call", "raised"}
              /\ imp.log = <<>> /\ imp.d = <<>>
              /\ imp.pc = "raised" => imp.exc = UnexpectedError(imp.cls, UnexpectedKeys)

\* a strict import of a mapping with two unexpected keys, a value its
\* converter rejects and a required field missing has failed up front
C8_Witness ==
    /\ imp.pc = "raised" /\ imp.strict /\ imp.cls = "P"
    /\ imp.exc.kind = "unexpected"
    /\ imp.exc.keys = {StrV("w1"), StrV("w2")}
    /\ HasKey(imp.data.v, StrV("c1")) /\ Lookup(imp.data.v, StrV("c1")) = StrV("a")
    /\ ~HasKey(imp.data.v, StrV("c3"))
    /\ imp.log = <<>>

\* C9: a typed field whose default is None has a nullable effective
\* descriptor, so from_dict and the setter accept an explicit None for it,
\* while a typed field without converter whose descriptor is not nullable
\* rejects an explicit None.
C9_NullableDefaulting ==
    /\ imp.pc # "idle" =>
          \A s \in Range(attributes(imp.cls)) :
              s.attribute_type # NoType /\ s.has_value /\ s.value = NoneV =>
                  /\ is_nullable(s.attribute_type)
                  /\ validate_attribute(imp.cls, s.attribute, s.attribute_type, NoneV).ok
    /\ \A i \in DOMAIN imp.log :
          LET e == imp.log[i]
              s == e.spec
          IN e.present /\ e.raw = NoneV /\ s.attribute_type # NoType
                  /\ s.from_converter = "" =>
                IF is_nullable(s.attribute_type) THEN e.ok /\ e.stored = NoneV
                ELSE ~e.ok

\* no declared field of the class has a converter
NoConverters(cls) == \A s \in Range(attributes(cls)) : s.from_converter = ""

\* every typed field of the instance holds a value conforming to its descriptor
Valid(obj) ==
    \A s \in Range(attributes(obj.cls)) :
        s.attribute_type # NoType =>
            validate_attribute(obj.cls, s.attribute, s.attribute_type,
                               getter(obj.d, s.attribute)).ok

\* the values of the declared fields of an instance, as its getters return them
FieldValues(obj) == [a \in DeclaredFields(obj.cls) |-> getter(obj.d, a)]

\* C10: for a class without converters and a valid instance x of it,
\* x.to_dict() succeeds, from_dict of the exported mapping succeeds and the
\* instance it returns has the declared-field values of x.
C10_RoundTrip ==
    imp.pc \in {"exported", "imported"} /\ NoConverters(imp.cls) /\ Valid(imp.result) =>
        /\ imp.out.ok
        /\ imp.pc = "imported" =>
              imp.back.ok /\ FieldValues(imp.back.v) = FieldValues(imp.result)

(***************************************************************************)
(* Single calls of the pure operations: one conversion, one conformance    *)
(* check or one validation of a descriptor per behaviour.  The variable    *)
(* imp holds the call: its operation, its arguments and, once it has       *)
(* returned, its outcome.                                                  *)
(***************************************************************************)
\* the longest tuple among the values checked
MaxLen == 2

NewCall(op, type, value) ==
    [pc |-> "call", op |-> op, type |-> type, value |-> value, result |-> NoValue]

IsUnion(type) == type.t = "alias" /\ type.o = "Union"

\* a mapping Q.from_dict imports, and one whose n4 the setter of Q rejects
QGood == DictV(<< <<StrV("n2"), IntV(1)>>, <<StrV("n4"), VGood>> >>)
QBad == DictV(<< <<StrV("n2"), IntV(1)>>, <<StrV("n4"), IntV(5)>> >>)
StrIntDict == DictT(Cls("str"), Cls("int"))

\* the Union descriptors converted against
ConvertTypes ==
    { UnionT(<<Cls("V"), Cls("int")>>), UnionT(<<Cls("int"), Cls("V")>>),
      UnionT(<<Cls("V"), StrIntDict>>), UnionT(<<StrIntDict, Cls("V")>>),
      UnionT(<<Cls("Q"), StrIntDict>>), UnionT(<<StrIntDict, Cls("Q")>>),
      UnionT(<<Cls("int"), Cls("str")>>), UnionT(<<Cls("str"), Cls("int"), Cls("V")>>),
      UnionT(<<TupleT(<<Cls("int"), EllipsisT>>), ListT(Cls("int")), Cls("NoneType")>>),
      UnionT(<<TupleT(<<Cls("int")>>), TupleT(<<Cls("int"), Cls("str")>>)>>),
      StrIntDict, Cls("V"), Cls("int"), Cls("W"),
      UnionT(<<Alias("Iterable", <<Cls("int")>>), Cls("int")>>),
      ListT(Alias("Iterable", <<Cls("int")>>)) }

ConvertValues ==
    { IntV(5), StrV("s"), NoneV, VGood, VBad, QGood, QBad, VObj, DictV(<<>>),
      DictV(<< <<StrV("kid"), IntV(5)>>, <<StrV("oc"), NoneV>> >>),
      DictV(<< <<StrV("kid"), VGood>>, <<StrV("oc"), VGood>>, <<StrV("un"), VGood>> >>),
      DictV(<< <<StrV("k"), IntV(1)>> >>), DictV(<< <<StrV("v1"), NoneV>> >>),
      ListV(<<IntV(1)>>), ListV(<<StrV("s")>>),
      TupleV(<<IntV(1)>>), TupleV(<<IntV(1), StrV("s")>>), TupleV(<<StrV("s")>>) }

ConvertCalls == { NewCall("convert", t, v) : t \in ConvertTypes, v \in ConvertValues }

\* ConverterFrom(cls.__name__).handle(attribute, attribute_type, value), as
\* from_dict calls it for the field un of W
Convert ==
    /\ imp.pc = "call" /\ imp.op = "convert"
    /\ imp' = [imp EXCEPT !.pc = "returned",
                          !.result = handle(ConverterFrom("W"), "un", imp.type, imp.value)]
    /\ UNCHANGED varsTracker

(***************************************************************************)
(* Keyword construction: DataStruct.__init__(self, **kwargs).              *)
(***************************************************************************)
\* the names every DataStruct class has besides its properties
ClassMembers == {"_SPEC_FIELD", "attr", "attributes", "from_dict", "to_dict",
                 "__init__", "__repr__"}

\* the names of the properties of cls, inherited ones included
PropertyNames(cls) == {p.prop : p \in Range(Properties(cls))}

\* hasattr(self, k): an instance attribute, or anything found on the class
hasattr(cls, d, k) ==
    k \in DOMAIN d \/ k \in PropertyNames(cls) \/ k \in ClassMembers

RECURSIVE InitAll(_, _, _)

\* the loop goes on after the assignment w, unless the setter raised
InitRest(cls, rest, w) == IF w.ok THEN InitAll(cls, rest, w.v) ELSE w

\* the loop over kwargs.items(), d being self.__dict__ so far
InitAll(cls, kwargs, d) ==
    IF kwargs = <<>> THEN Ok(ObjV(cls, d))
    ELSE IF ~hasattr(cls, d, Head(kwargs)[1].v)
    THEN Throw(Exc("AttributeError", "attribute", cls, Head(kwargs)[1].v))
    ELSE InitRest(cls, Tail(kwargs),
                  __setattr__(cls, d, Head(kwargs)[1].v, Head(kwargs)[2]))

\* cls(**kwargs), kwargs being the dict of the keywords in call order
__init__(cls, kwargs) == InitAll(cls, kwargs.v, <<>>)

\* the keywords tried for each class: its properties, a field key that is
\* no property, a method and a name the class does not have
KeywordMenu(c) ==
    CASE c = "V" -> {"v", "v1", "to_dict", "zzz"}
      [] c = "A" -> {"x", "y", "attributes", "zzz"}
      [] c = "B" -> {"x", "y", "z", "zz"}
      [] c = "Q" -> {"n1", "n4", "from_dict"}

KeywordValues == {IntV(1), StrV("s"), NoneV, VObj}

\* kwargs of one and of two keywords
KeywordsOf(c) ==
    { << <<StrV(k), v>> >> : k \in KeywordMenu(c), v \in KeywordValues }
        \cup { kw \in { << <<StrV(k1), v1>>, <<StrV(k2), v2>> >> :
                           k1 \in KeywordMenu(c), k2 \in KeywordMenu(c),
                           v1 \in {IntV(1), StrV("s")}, v2 \in {IntV(1), StrV("s")} } :
                 kw[1][1] # kw[2][1] }

ConstructedClasses == {"V", "A", "B", "Q"}

ConstructCalls ==
    UNION { { NewCall("init", Cls(c), DictV(kw)) : kw \in KeywordsOf(c) \cup {<<>>} } :
              c \in ConstructedClasses }

Construct ==
    /\ imp.pc = "call" /\ imp.op = "init"
    /\ imp' = [imp EXCEPT !.pc = "returned", !.result = __init__(imp.type.c, imp.value)]
    /\ UNCHANGED varsTracker

(***************************************************************************)
(* Conformance checks and validations of single values.                    *)
(***************************************************************************)
TupleElements == {IntV(1), StrV("s"), NoneV}

\* the tuples of at most n elements
TuplesUpTo(n) == { TupleV(s) : s \in UNION { [1..m -> TupleElements] : m \in 0..n } }

CheckedValues ==
    TuplesUpTo(MaxLen)
        \cup { NoneV, IntV(1), StrV("s"), ListV(<<>>), ListV(<<IntV(1)>>), ListV(<<NoneV>>),
               DictV(<<>>), DictV(<< <<StrV("k"), IntV(1)>> >>),
               DictV(<< <<IntV(1), ListV(<<>>)>> >>) }

\* typing.Iterable[int]: a generic alias is_instance has no branch for
IterableT(d) == Alias("Iterable", <<d>>)

\* the members of the Unions checked, in both orders
UnionMembers ==
    { Cls("int"), Cls("str"), Cls("NoneType"), ListT(Cls("int")),
      ListT(OptionalT(Cls("int"))), IterableT(Cls("int")),
      TupleT(<<Cls("int"), EllipsisT>>) }

\* Union[a, a] is a itself
SameTwice == { UnionT(<<a, a>>) : a \in UnionMembers }

TupleTypes ==
    { TupleT(<<>>), TupleT(<<EmptyTupleArg>>), TupleT(<<Cls("int")>>),
      TupleT(<<Cls("int"), Cls("str")>>), TupleT(<<Cls("str"), Cls("int")>>),
      TupleT(<<OptionalT(Cls("int")), Cls("str")>>),
      TupleT(<<Cls("int"), EllipsisT>>), TupleT(<<Cls("NoneType"), EllipsisT>>),
      TupleT(<<UnionT(<<Cls("int"), Cls("str")>>), EllipsisT>>) }

CheckedTypes ==
    TupleTypes
        \cup ({ UnionT(<<a, b>>) : a \in UnionMembers, b \in UnionMembers } \ SameTwice)
        \cup { Cls("int"), Cls("str"), Cls("NoneType"), Cls("object"), Cls("tuple"),
               AnyT, BareOptionalT, TV_T, TypesTuple(<<Cls("int"), Cls("NoneType")>>),
               UnionT(<<Cls("int"), Cls("str"), Cls("NoneType")>>),
               ListT(Cls("int")), DictT(Cls("str"), Cls("int")),
               DictT(Cls("str"), IterableT(Cls("int"))), IterableT(Cls("int")),
               ListT(IterableT(Cls("int"))) }

IsInstanceCalls == { NewCall("is_instance", t, v) : t \in CheckedTypes, v \in CheckedValues }

\* the callables checked: the functions, methods and callable object of the
\* repository's test, a function with **kwargs only, and functions with
\* missing annotations
IntStr == << <<"_", Cls("int")>>, <<"return", Cls("str")>> >>

CallableValues ==
    { FnV("function", <<"_">>, "", "", << <<"_", Cls("int")>>, <<"return", Cls("NoneType")>> >>),
      FnV("function", <<>>, "_", "", IntStr),
      FnV("function", <<>>, "", "kw", << <<"return", Cls("str")>> >>),
      FnV("function", <<"a">>, "args", "kw", << <<"a", Cls("int")>>, <<"return", Cls("str")>> >>),
      FnV("function", <<"a">>, "", "", <<>>),
      FnV("function", <<"_">>, "", "", << <<"_", Cls("int")>> >>),
      FnV("function", <<"a", "b">>, "", "",
          << <<"a", Cls("int")>>, <<"b", Cls("str")>>, <<"return", Cls("str")>> >>),
      FnV("function", <<>>, "", "", << <<"return", Cls("int")>> >>),
      FnV("function", <<"_">>, "", "", IntStr),
      FnV("method", <<"self", "_">>, "", "", IntStr),
      FnV("method", <<"cls", "_">>, "", "", IntStr),
      FnV("object", <<"self", "_">>, "", "", IntStr) }

CallableTypes ==
    { CallableT(<<Cls("int")>>, Cls("NoneType")), CallableT(<<Cls("int")>>, Cls("str")),
      CallableT(<<Cls("str")>>, Cls("NoneType")), CallableT(<<Cls("str")>>, Cls("str")),
      CallableT(<<Cls("int")>>, Cls("int")), CallableT(<<Cls("int"), Cls("str")>>, Cls("str")),
      CallableT(<<>>, Cls("int")),
      CallableAnyT(Cls("str")), CallableAnyT(Cls("NoneType")), CallableAnyT(Cls("int")) }

CallableCalls ==
    { NewCall("is_instance", t, v) :
        t \in CallableTypes, v \in CallableValues \cup {IntV(1), NoneV} }

\* what a call returned on the Python version py
On(py, r) == [py |-> py, r |-> r]

\* is_instance(obj, obj_type), obj_type being the object the running Python
\* builds for the type expression
IsInstance ==
    /\ imp.pc = "call" /\ imp.op = "is_instance"
    /\ \E py \in PythonVersions :
           imp' = [imp EXCEPT !.pc = "returned",
                              !.result = On(py, is_instance(imp.value, Build(py, imp.type)))]
    /\ UNCHANGED varsTracker

\* the descriptors validated against: the types a field may declare
ValidatedTypes ==
    TupleTypes \cup { Cls("int"), UnionT(<<Cls("int"), Cls("str")>>),
                      OptionalT(Cls("int")), ListT(Cls("int")),
                      DictT(Cls("str"), Cls("int")), DictT(Cls("str"), ListT(Cls("int"))),
                      IterableT(Cls("int")), ListT(IterableT(Cls("int"))),
                      UnionT(<<IterableT(Cls("int")), Cls("int")>>),
                      UnionT(<<IterableT(Cls("int")), Cls("str")>>),
                      UnionT(<<Cls("int"), IterableT(Cls("int"))>>) }

ValidateCalls ==
    { NewCall("validate_attribute", t, v) : t \in ValidatedTypes, v \in CheckedValues \cup {g1} }

\* validate_attribute(struct, attribute, attribute_type, value)
ValidateAttribute ==
    /\ imp.pc = "call" /\ imp.op = "validate_attribute"
    /\ \E py \in PythonVersions :
           imp' = [imp EXCEPT !.pc = "returned",
                              !.result = On(py, validate_attribute("S", "a",
                                                    Build(py, imp.type), imp.value))]
    /\ UNCHANGED varsTracker

(***************************************************************************)
(* validate_attribute_type: the check DataStruct.attr makes of a declared  *)
(* descriptor.                                                             *)
(***************************************************************************)
SetT(d) == Alias("set", <<d>>)

\* the classes that are no subclass of collections.abc.Hashable
UnhashableClasses == {"list", "dict", "set"}

InvalidType(attribute) == Throw(Exc("TypeError", "invalid", "", attribute))

RECURSIVE validate_attribute_type(_, _)
RECURSIVE ValidateArgs(_, _)

\* the next call of the loop runs unless the call before it raised
ThenValidate(r, rest) == IF r.ok THEN rest ELSE r

\* for arg in get_args(attribute_type): validate_attribute_type(attribute, arg)
ValidateArgs(attribute, args) ==
    IF args = <<>> THEN Ok(NoneV)
    ELSE ThenValidate(validate_attribute_type(attribute, Head(args)),
                      ValidateArgs(attribute, Tail(args)))

\* issubclass(get_origin(k_type) or k_type, Hashable): typing.Union is no
\* class, and issubclass raises TypeError for it
KeyIsHashable(attribute, k_type) ==
    IF k_type.t = "alias" /\ k_type.o = "Union"
    THEN Throw(Exc("TypeError", "issubclass", "", attribute))
    ELSE IF (IF k_type.t = "alias" THEN k_type.o ELSE k_type.c) \in UnhashableClasses
    THEN Throw(Exc("TypeError", "hashable", "", attribute))
    ELSE Ok(NoneV)

\* lines 54-57: the key, its hashability, the value
ValidateDict(k, h, v) ==
    IF ~k.ok THEN k
    ELSE IF ~h.ok THEN h
    ELSE v

validate_attribute_type(attribute, attribute_type) ==
    LET origin == IF attribute_type.t = "alias" THEN attribute_type.o ELSE "None"
        args == IF attribute_type.t = "alias" THEN attribute_type.a ELSE <<>>
    IN IF origin \in {"Union", "tuple"} THEN ValidateArgs(attribute, args)
       ELSE IF origin = "list"
       THEN ValidateArgs(attribute, args)
       ELSE IF origin = "dict"
       THEN IF args = <<>> THEN Ok(NoneV)
            ELSE ValidateDict(validate_attribute_type(attribute, args[1]),
                              KeyIsHashable(attribute, args[1]),
                              validate_attribute_type(attribute, args[2]))
       ELSE IF attribute_type.t # "class" THEN InvalidType(attribute)
       ELSE Ok(NoneV)

\* the key descriptors of the Dict descriptors declared
KeyTypes ==
    { Cls("int"), Cls("str"), Cls("V"), Cls("list"), Cls("NoneType"),
      ListT(Cls("int")), SetT(Cls("int")), DictT(Cls("str"), Cls("int")),
      UnionT(<<Cls("int"), Cls("str")>>), OptionalT(Cls("str")),
      UnionT(<<ListT(Cls("int")), Cls("str")>>),
      UnionT(<<Cls("str"), DictT(Cls("str"), Cls("int"))>>),
      UnionT(<<Cls("int"), SetT(Cls("int"))>>),
      TupleT(<<Cls("int"), Cls("str")>>), TupleT(<<ListT(Cls("int")), Cls("int")>>) }

\* the value descriptors: each is valid by itself
ValueTypes ==
    { Cls("int"), Cls("V"), ListT(Cls("int")), ListT(ListT(Cls("str"))),
      DictT(Cls("str"), ListT(Cls("int"))), UnionT(<<Cls("int"), ListT(Cls("int"))>>),
      OptionalT(DictT(Cls("int"), Cls("int"))), TupleT(<<Cls("int"), ListT(Cls("int"))>>) }

DeclaredTypes ==
    { DictT(k, v) : k \in KeyTypes, v \in ValueTypes }
        \cup KeyTypes \cup ValueTypes
        \cup { TupleT(<<Cls("int"), EllipsisT>>), TupleT(<<EmptyTupleArg>>), TupleT(<<>>),
               Alias("dict", <<>>), Alias("list", <<>>), AnyT, TV_T,
               DictT(Cls("str"), SetT(Cls("int"))), DictT(Cls("str"), AnyT),
               DictT(Cls("str"), DictT(ListT(Cls("int")), Cls("int"))) }

ValidateTypeCalls == { NewCall("validate_attribute_type", t, NoneV) : t \in DeclaredTypes }

\* validate_attribute_type(attribute, attribute_type)
ValidateAttributeType ==
    /\ imp.pc = "call" /\ imp.op = "validate_attribute_type"
    /\ \E py \in PythonVersions :
           imp' = [imp EXCEPT !.pc = "returned",
                              !.result = On(py, validate_attribute_type("a", Build(py, imp.type)))]
    /\ UNCHANGED varsTracker

\* instances of the user-defined generic classes: G(), G[int](), H(), GS()
\* and G2()
GenericValues == { g1, g3, GenOf("H", 4), GenOf("GS", 5), GenOf("G2", 6) }

\* subscripted user-defined generic classes: G[T], G[K], G[int], H[T], GS[T],
\* G2[T, K], G2[K, T] and Generic[T]
GenericTypes ==
    { GT, Alias("G", <<TV_K>>), GInt, Alias("H", <<TV_T>>), Alias("GS", <<TV_T>>),
      Alias("G2", <<TV_T, TV_K>>), Alias("G2", <<TV_K, TV_T>>), GenericT }

GenericCalls ==
    { NewCall("is_instance", t, v) :
        t \in GenericTypes \cup {Cls("G"), Cls("H"), Cls("Generic")},
        v \in GenericValues \cup {IntV(1)} }

\* the type variables of test_is_instance_typevar (constraints bool and Pet,
\* one per variance), an invariant one constrained to int and str, and
\* type variables with a bound
TypeVars ==
    { TV_T, TypeVarOf("a", <<"bool", "Pet">>, TRUE, FALSE),
      TypeVarOf("b", <<"bool", "Pet">>, FALSE, TRUE),
      TypeVarOf("c", <<"bool", "Pet">>, FALSE, FALSE),
      TypeVarOf("n", <<"int", "str">>, FALSE, FALSE),
      BoundTypeVar("B", "Pet", FALSE, FALSE), BoundTypeVar("Bco", "Pet", TRUE, FALSE),
      BoundTypeVar("Bcontra", "Pet", FALSE, TRUE) }

TypeVarValues ==
    { NoneV, InstV("Animal"), InstV("Pet"), InstV("Cat"), BoolV(TRUE), IntV(1), StrV("s") }

TypeVarCalls == { NewCall("is_instance", t, v) : t \in TypeVars, v \in TypeVarValues }

OpCalls ==
    ConvertCalls \cup ConstructCalls \cup IsInstanceCalls \cup ValidateCalls
        \cup ValidateTypeCalls \cup CallableCalls \cup GenericCalls \cup TypeVarCalls

InitOps == InitTracker /\ imp \in OpCalls

NextOps ==
    \/ Convert
    \/ Construct
    \/ IsInstance
    \/ ValidateAttribute
    \/ ValidateAttributeType

SpecOps == InitOps /\ [][NextOps]_vars

(***************************************************************************)
(* Properties of the single calls.                                         *)
(***************************************************************************)
\* the outcome of converting value against the member at index i
MemberOutcome(call, i) == handle(ConverterFrom("W"), "un", call.type.a[i], call.value)

\* the members whose conversion returns a value
Succeeding(call) == {i \in DOMAIN call.type.a : MemberOutcome(call, i).ok}

\* the members whose conversion does not end in the converter's own error
NotFailing(call) ==
    {i \in DOMAIN call.type.a :
        MemberOutcome(call, i).ok \/ MemberOutcome(call, i).exc.type # "ValueError"}

Lowest(S) == CHOOSE i \in S : \A j \in S : i <= j

UnionConverted == imp.pc = "returned" /\ imp.op = "convert" /\ IsUnion(imp.type)

Declarers(cls, name) ==
    {i \in DOMAIN Mro(cls) :
        \E p \in Range(ClassDict(Mro(cls)[i])) : p.spec.attribute = name}

Highest(S) == CHOOSE i \in S : \A j \in S : i >= j

\* the declaration of name in the most-derived class that has one
MostDerived(cls, name) ==
    LET c == Mro(cls)[Lowest(Declarers(cls, name))]
    IN (CHOOSE p \in Range(ClassDict(c)) : p.spec.attribute = name).spec

\* C12: attributes() lists the declared fields of the type and its ancestors
\* in ancestor-to-descendant order, one entry per field name; the entry of a
\* name declared twice is the most-derived declaration, and it is the one a
\* from_dict of a mapping without that key takes the default from.
C12_AttributesBaseToDerivedUnique ==
    LET a == attributes(imp.cls)
    IN /\ imp.pc = "loop" =>
              /\ \A i, j \in DOMAIN a : a[i].attribute = a[j].attribute => i = j
              /\ \A i, j \in DOMAIN a :
                     i < j => Highest(Declarers(imp.cls, a[i].attribute))
                                 >= Highest(Declarers(imp.cls, a[j].attribute))
              /\ \A i \in DOMAIN a : a[i] = MostDerived(imp.cls, a[i].attribute)
       /\ imp.pc = "done" =>
              \A name \in DeclaredFields(imp.cls) :
                  ~HasKey(imp.data.v, StrV(name)) =>
                      imp.result.d[name] = MostDerived(imp.cls, name).value

Constructed == imp.pc = "returned" /\ imp.op = "init"

\* the descriptor of the property named k of cls, of the nearest class
DescriptorOf(cls, k) ==
    Properties(cls)[Lowest({i \in DOMAIN Properties(cls) : Properties(cls)[i].prop = k})].spec

\* C13: keyword construction succeeds only if every keyword names a declared
\* field; a keyword that is no declared field, the name of a method included,
\* raises AttributeError; every accepted value is validated against the
\* descriptor of its field.
C13_KeywordsMustBeFields ==
    Constructed =>
        LET cls == imp.type.c
            kwargs == imp.value.v
            fields == PropertyNames(cls)
        IN /\ imp.result.ok => \A i \in DOMAIN kwargs : kwargs[i][1].v \in fields
           /\ (\E i \in DOMAIN kwargs : kwargs[i][1].v \notin fields) =>
                  ~imp.result.ok /\ imp.result.exc.type = "AttributeError"
           /\ imp.result.ok =>
                  \A i \in DOMAIN kwargs :
                      (kwargs[i][1].v \in fields
                        /\ DescriptorOf(cls, kwargs[i][1].v).attribute_type # NoType) =>
                          validate_attribute(cls, kwargs[i][1].v,
                              DescriptorOf(cls, kwargs[i][1].v).attribute_type,
                              kwargs[i][2]).ok

Checked == imp.pc = "returned" /\ imp.op = "is_instance"
Validated == imp.pc = "returned" /\ imp.op = "validate_attribute"

\* what is_instance returns for value and the type expression type on the
\* Python version of the call that returned
Matches(value, type) == is_instance(value, Build(imp.result.py, type))

\* C14: is_instance(v, Union[A, B]) and is_instance(v, Union[B, A]) have the
\* same outcome.
C14_UnionCommutative ==
    (Checked /\ IsUnion(imp.type) /\ Len(imp.type.a) = 2) =>
        imp.result.r = Matches(imp.value, UnionT(<<imp.type.a[2], imp.type.a[1]>>))

IsTuple(type) == type.t = "alias" /\ type.o = "tuple"

\* Tuple[d, ...]
IsVariadic(type) == IsTuple(type) /\ Len(type.a) = 2 /\ type.a[2] = EllipsisT

\* Tuple[d1, ..., dn]
IsFixed(type) ==
    IsTuple(type) /\ type.a # <<>> /\ type.a # <<EmptyTupleArg>> /\ ~IsVariadic(type)

\* C15: is_instance(v, Tuple[d1, ..., dn]) is true iff v is a tuple of length
\* exactly n whose element at every position matches the descriptor of that
\* position; is_instance(v, Tuple[d, ...]) is true iff v is a tuple and every
\* element matches d, the empty tuple included.
C15_TupleMatching ==
    Checked =>
        /\ IsFixed(imp.type) =>
               (imp.result.r = "True" <=>
                    /\ imp.value.k = "tuple"
                    /\ Len(imp.value.v) = Len(imp.type.a)
                    /\ \A i \in DOMAIN imp.type.a :
                           Matches(imp.value.v[i], imp.type.a[i]) = "True")
        /\ IsVariadic(imp.type) =>
               (imp.result.r = "True" <=>
                    /\ imp.value.k = "tuple"
                    /\ \A i \in DOMAIN imp.value.v :
                           Matches(imp.value.v[i], imp.type.a[1]) = "True")

\* a tuple with a fitting first element and a second one that does not fit
\* was checked against a fixed Tuple and rejected
C15_Witness ==
    /\ Checked
    /\ imp.type = TupleT(<<Cls("int"), Cls("str")>>)
    /\ imp.value = TupleV(<<IntV(1), IntV(1)>>)
    /\ imp.result.r = "False"

IsEmptyMarker(type) == type = TupleT(<<EmptyTupleArg>>)

\* C16: against Tuple[()] both is_instance and validate_attribute accept the
\* zero-length tuple and reject every non-empty tuple; bare Tuple accepts
\* tuples of any length.
C16_EmptyTupleMarker ==
    imp.pc = "returned" /\ imp.op \in {"is_instance", "validate_attribute"}
            /\ imp.value.k = "tuple" =>
        /\ (Checked /\ IsEmptyMarker(imp.type)) =>
               imp.result.r = BoolStr(imp.value.v = <<>>)
        /\ (Validated /\ IsEmptyMarker(imp.type)) =>
               (imp.result.r.ok <=> imp.value.v = <<>>)
        /\ (Checked /\ imp.type = TupleT(<<>>)) => imp.result.r = "True"
        /\ (Validated /\ imp.type = TupleT(<<>>)) => imp.result.r.ok

RECURSIVE AcceptsNone(_)
\* the descriptors None conforms to: the classes None is an instance of, Any,
\* bare Optional, a TypeVar whose constraints allow NoneType, and a Union or
\* a tuple of types with such a member
AcceptsNone(type) ==
    CASE type.t = "class" -> type.c \in {"NoneType", "object"}
      [] type.t \in {"Any", "Optional"} -> TRUE
      [] type.t = "TypeVar" -> is_type_var("NoneType", type)
      [] type.t = "types" \/ IsUnion(type) -> \E i \in DOMAIN type.a : AcceptsNone(type.a[i])
      [] OTHER -> FALSE

TypeValidated == imp.pc = "returned" /\ imp.op = "validate_attribute_type"

IsDict(type) == type.t = "alias" /\ type.o = "dict" /\ Len(type.a) = 2

RECURSIVE ReachesUnhashable(_)
\* a List, Set or Dict shape is the descriptor itself or a member of the
\* Union it is
ReachesUnhashable(type) ==
    \/ type.t = "alias" /\ type.o \in UnhashableClasses
    \/ type.t = "class" /\ type.c \in UnhashableClasses
    \/ IsUnion(type) /\ \E i \in DOMAIN type.a : ReachesUnhashable(type.a[i])

\* C18: validate_attribute_type of a Dict descriptor whose value descriptor
\* is valid fails, with TypeError, iff a List, Set or Dict shape is reachable
\* in the key descriptor, directly or through a Union; what the value
\* descriptor contains does not matter.
C18_DictKeyHashable ==
    (TypeValidated /\ IsDict(imp.type) /\ imp.type.a[1] \in KeyTypes
                   /\ imp.type.a[2] \in ValueTypes) =>
        /\ ~imp.result.r.ok <=> ReachesUnhashable(imp.type.a[1])
        /\ ~imp.result.r.ok => imp.result.r.exc.type = "TypeError"

IsCallableT(type) == type.t = "alias" /\ type.o = "Callable"

CallableChecked == Checked /\ IsCallableT(imp.type) /\ imp.value.k = "fn"

\* the declared return annotation is the descriptor's, or there is none
ReturnMatches(fn, r) ==
    Annotated(fn.ann, "return") => Annotation(fn.ann, "return") = r

\* the declared parameters, without the receiver of a bound method or of a
\* callable object
Declared(fn) ==
    IF fn.kind = "function" THEN fn.args ELSE Tail(fn.args)

\* C19: against Callable[..., r] the parameter part matches iff the callable
\* declares *args or **kwargs; the check is true iff it does and the return
\* part matches.
C19_EllipsisNeedsVariadic ==
    (CallableChecked /\ imp.type.a[1] = EllipsisT) =>
        imp.result.r = BoolStr(/\ imp.value.varargs # "" \/ imp.value.varkw # ""
                               /\ ReturnMatches(imp.value, imp.type.a[2]))

\* C20: is_instance(fn, Callable[[p1, ..., pn], r]) is true iff fn declares
\* exactly n parameters besides the receiver, each annotated with exactly the
\* pi of its position, and the return annotation of fn is r or absent.
C20_ExplicitParameters ==
    (CallableChecked /\ imp.type.a[1] # EllipsisT) =>
        LET params == imp.type.a[1].a
            fn == imp.value
        IN imp.result.r =
               BoolStr(/\ Len(Declared(fn)) = Len(params)
                       /\ \A i \in DOMAIN params :
                              /\ Annotated(fn.ann, Declared(fn)[i])
                              /\ Annotation(fn.ann, Declared(fn)[i]) = params[i]
                       /\ ReturnMatches(fn, imp.type.a[2]))

\* the user-defined generic classes of the model
GenericClasses == {"G", "H", "GS", "G2"}

\* a value whose class is a user-defined generic class was checked against a
\* subscripted generic class
GenericChecked ==
    /\ Checked /\ imp.value.k = "gen"
    /\ imp.type.t = "alias" /\ imp.type.o \in GenericClasses \cup {"Generic"}

\* the type arguments is_instance reads from the value (obj.__parameters__)
RecordedArguments(obj) == ClassParameters(ClassOf(obj))

\* C21: for a value of a user-defined generic class, is_instance(value,
\* Base[a1..an]) is True only if the class of the value is Base or a subclass
\* of Base, n is the number of type arguments recorded for the value and the
\* recorded type arguments are a1..an, position by position.
C21_GenericInstance ==
    GenericChecked /\ imp.result.r = "True" =>
        /\ issubclass(ClassOf(imp.value), imp.type.o)
        /\ Len(imp.type.a) = Len(RecordedArguments(imp.value))
        /\ imp.type.a = RecordedArguments(imp.value)

\* a value was checked against a type variable
TypeVarChecked == Checked /\ imp.type.t = "TypeVar"

\* the class and its ancestors
Ancestry(c) == Range(Mro(c))

\* C22: is_instance(v, TypeVar) is True when the type variable has no
\* constraints (a bound counting as the one constraint); otherwise, C being
\* the class of v, it is True exactly when C or an ancestor of C is a
\* constraint (covariant), when C is a constraint or an ancestor of one
\* (contravariant), when C is one of the constraints (invariant): a bool is
\* accepted by an invariant type variable only when bool is a constraint.
C22_TypeVarVariance ==
    TypeVarChecked =>
        LET C == ClassOf(imp.value)
            constraints == Range(Constraints(imp.type))
        IN imp.result.r = BoolStr(
               \/ constraints = {}
               \/ imp.type.co /\ constraints \cap Ancestry(C) # {}
               \/ ~imp.type.co /\ imp.type.contra /\ (\E p \in constraints : C \in Ancestry(p))
               \/ ~imp.type.co /\ ~imp.type.contra /\ C \in constraints)

\* True was checked against an invariant type variable constrained to int
\* and str, and was refused
C22_Witness ==
    /\ TypeVarChecked /\ imp.value = BoolV(TRUE)
    /\ ~imp.type.co /\ ~imp.type.contra
    /\ "int" \in Range(Constraints(imp.type))
    /\ imp.result.r = "False"

Converted == imp.pc = "returned" /\ imp.op = "convert"

\* a descriptor neither the checker nor the traversal has a branch for
Unsupported(type) == type.t = "alias" /\ type.o = "Iterable"

RECURSIVE Reaches(_, _)
\* processing value against type surely reaches an unsupported descriptor:
\* it is the descriptor itself, the first member of a Union or the element
\* descriptor of a List, for the first element of a list
Reaches(type, value) ==
    IF Unsupported(type) THEN TRUE
    ELSE IF type.t # "alias" \/ type.a = <<>> THEN FALSE
    ELSE IF type.o = "Union" THEN Reaches(type.a[1], value)
    ELSE IF type.o = "list" /\ value.k = "list" /\ value.v # <<>>
    THEN Reaches(type.a[1], value.v[1])
    ELSE FALSE

\* the operation failed with the error of the unsupported descriptor
FailedUnsupported(r) == ~r.ok /\ r.exc.kind = "isinstance"

\* C23: when the checker or a traversal reaches a descriptor it does not
\* support, the operation fails with the error of that descriptor: it is
\* neither turned into "does not match" nor swallowed by the next member of
\* a Union.
C23_UnsupportedShapeIsFatal ==
    /\ Checked /\ Reaches(imp.type, imp.value) => imp.result.r \notin {"True", "False"}
    /\ Validated /\ Reaches(imp.type, imp.value) => FailedUnsupported(imp.result.r)
    /\ Converted /\ Reaches(imp.type, imp.value) => FailedUnsupported(imp.result)

\* the empty list, the empty dict or the empty tuple
EmptyContainer(value) == value.k \in {"list", "dict", "tuple"} /\ value.v = <<>>

\* a List, Dict or Tuple descriptor with arguments, of the kind of value
ParameterizedFor(type, value) == type.t = "alias" /\ type.a # <<>> /\ type.o = value.k

\* C24: validate_attribute does not raise for an empty container against a
\* parameterized descriptor of its kind: the empty list against List[T], the
\* empty dict against Dict[K, V] and the empty tuple against a Tuple
\* descriptor, one of fixed arity with one or more positions included.
C24_EmptyContainerAccepted ==
    Validated /\ EmptyContainer(imp.value) /\ ParameterizedFor(imp.type, imp.value) =>
        imp.result.r.ok

RECURSIVE BuiltFromScalars(_)
\* a descriptor built from classes, Union, List, Dict, fixed-arity Tuple and
\* variadic Tuple
BuiltFromScalars(type) ==
    IF type.t = "class" THEN TRUE
    ELSE IF type.t # "alias" \/ type.o \notin {"Union", "list", "dict", "tuple"} THEN FALSE
    ELSE IF IsVariadic(type) THEN BuiltFromScalars(type.a[1])
    ELSE type.a # <<>> /\ \A i \in DOMAIN type.a : BuiltFromScalars(type.a[i])

\* validate_attribute raised TypeError
RaisedTypeError == ~imp.result.r.ok /\ imp.result.r.exc.type = "TypeError"

\* C25: for a descriptor built from classes, Union, List, Dict and Tuple,
\* validate_attribute raises TypeError exactly when is_instance of the same
\* value and descriptor is False; a tuple of another length than a
\* fixed-arity Tuple descriptor always raises.
C25_ValidateAgreesWithChecker ==
    Validated /\ BuiltFromScalars(imp.type) =>
        /\ RaisedTypeError <=> Matches(imp.value, imp.type) = "False"
        /\ IsFixed(imp.type) /\ imp.value.k = "tuple" /\ Len(imp.value.v) # Len(imp.type.a)
               => RaisedTypeError

\* the export of a leaf: the to_dict() mapping of a record instance, every
\* other value unchanged
ExportedLeaf(value) == IF value.k = "obj" THEN to_dict(value).v ELSE value

\* the export of a field value: a list, a tuple or a dict rebuilt with each
\* element exported, else the export of the leaf
Exported(value) ==
    IF value.k \in {"list", "tuple"}
    THEN [value EXCEPT !.v = [i \in DOMAIN value.v |-> ExportedLeaf(value.v[i])]]
    ELSE IF value.k = "dict"
    THEN [value EXCEPT !.v = [i \in DOMAIN value.v |->
                                 <<ExportedLeaf(value.v[i][1]), ExportedLeaf(value.v[i][2])>>]]
    ELSE ExportedLeaf(value)

\* C26: to_dict of an instance succeeds and maps every field to the export
\* of its value: a record instance to its own to_dict() mapping, a container
\* rebuilt with each element exported, every other value unchanged, None or
\* a scalar in a record-typed or Union-typed field and the value of an
\* untyped field included.
C26_ExportPassesLeavesThrough ==
    imp.pc = "exported" =>
        /\ imp.out.ok
        /\ \A a \in DeclaredFields(imp.cls) :
               Lookup(imp.out.v.v, StrV(a)) = Exported(getter(imp.result.d, a))

\* the conversion against member i failed with the converter's own error
FailedConversion(call, i) ==
    ~MemberOutcome(call, i).ok /\ MemberOutcome(call, i).exc.type = "ValueError"

C28_ConvertedValueConforms ==
    Converted /\ imp.result.ok =>
        /\ validate_attribute("W", "un", imp.type, imp.result.v).ok
        /\ imp.result.v.k = "obj" => Valid(imp.result.v)

\* the functions whose parameters are all annotated with the type variable N
TypeVarFunctions == {"same", "samet"}

\* the arguments of a call in the order the wrapper takes them
Arguments(f) == f.pos \o [j \in DOMAIN f.kw |-> f.kw[j][2]]

\* the first argument is within the constraints of N and every later one is
\* an instance of the first one's class
AcceptedByBinding(f) ==
    LET args == Arguments(f)
    IN args # <<>> =>
        /\ is_instance(args[1], TV_N) = "True"
        /\ \A j \in 2..Len(args) : isinstance(args[j], ClassOf(args[1]))

\* the wrapper is at its first argument
AtFirstArgument(f) ==
    /\ f.idx = 1
    /\ f.pc = "args" \/ (f.pc = "kwargs" /\ f.pos = <<>>)

\* C29: in a call of a wrapped function whose parameters are annotated with
\* one type variable the receiver does not bind, the call starts with the
\* variable unbound, the original function is invoked exactly when the first
\* argument is within the constraints and every later argument is an
\* instance of the first one's class, and the variable is then bound to that
\* class.
C29_TypeVarBoundPerCall ==
    \A i \in DOMAIN stack["t1"] :
        LET f == stack["t1"][i]
        IN f.fn \in TypeVarFunctions =>
            /\ AtFirstArgument(f) => f.type_vars = <<>>
            /\ f.pc = "body" =>
                    /\ AcceptedByBinding(f)
                    /\ Arguments(f) # <<>> =>
                           /\ DOMAIN f.type_vars = {"N"}
                           /\ f.type_vars["N"] = Cls(ClassOf(Arguments(f)[1]))
            /\ f.pc = "cleanup" /\ f.exc = "TypeError" => ~AcceptedByBinding(f)
====
